---- MODULE Spec2Model ----
(***************************************************************************)
(* Model of the multi-provider classification core                         *)
(* (lib/multi-provider-classifier.js): credential pools with round-robin   *)
(* cursor, the weighted provider rotation, the three backend adapters, the *)
(* reply parser and the orchestrator classifyWithAI with graceful          *)
(* degradation.  Requests are issued one at a time, as the pipeline's      *)
(* `for ... await classifyWithAI(item)` loop does.                         *)
(*                                                                         *)
(* Spec      classifyWithAI as a whole, one step per adapter iteration     *)
(* LoadSpec  loadKeys / initializeKeyPools on any environment value        *)
(* PoolSpec  getNextKey and removeKey called in any order                  *)
(* RateSpec  the adapters step by step, with waitForRateLimit's clock      *)
(***************************************************************************)
EXTENDS Integers, Sequences, FiniteSets, TLC

\* ---------------------------------------------------------------- bounds
\* number of credentials the environment holds, all providers together
MaxKeys == 3

\* successful primary calls that are counted; later ones are not numbered
MaxServed == 23

\* pieces the three credential variables of the environment hold in all,
\* and the number of different credentials among them
MaxPieces == 3

\* ------------------------------------------------------------- JS values
\* A JSON / JS value: t is the typeof tag, n/s/b carry the payload.
\* Numbers are held in hundredths (0.7 is 70, 1.4 is 140); a string is the
\* sequence of its words, the empty string the empty sequence.
Num(x)  == [t |-> "num",  n |-> x, s |-> << >>, b |-> FALSE]
Str(x)  == [t |-> "str",  n |-> 0, s |-> x,     b |-> FALSE]
Bool(x) == [t |-> "bool", n |-> 0, s |-> << >>, b |-> x]
JNull   == [t |-> "null", n |-> 0, s |-> << >>, b |-> FALSE]

\* String.prototype.includes, on word sequences
includes(str, sub) ==
    \E i \in 0..(Len(str) - Len(sub)) :
        \A j \in 1..Len(sub) : str[i + j] = sub[j]

Has(o, k) == k \in DOMAIN o

\* JS truthiness of a property read o[k] (undefined when the key is absent)
Truthy(o, k) ==
    /\ Has(o, k)
    /\ CASE o[k].t = "num"  -> o[k].n # 0
         [] o[k].t = "str"  -> o[k].s # << >>
         [] o[k].t = "bool" -> o[k].b
         [] OTHER           -> FALSE

TypeOf(o, k) == IF Has(o, k) THEN o[k].t ELSE "undefined"

Max(a, b) == IF a >= b THEN a ELSE b
Min(a, b) == IF a <= b THEN a ELSE b

\* --------------------------------------------------------- configuration
ProviderNames == {"cerebras", "openrouter", "moonshot"}

PROVIDERS ==
    [ openrouter |-> [ models |-> << "arcee-ai/trinity-large-preview:free",
                                     "google/gemma-3-4b-it:free" >>,
                       rateLimit |-> [ delayBetweenRequests |-> 3000 ] ],
      cerebras   |-> [ models |-> << "gpt-oss-120b" >>,
                       rateLimit |-> [ delayBetweenRequests |-> 2000 ] ],
      moonshot   |-> [ models |-> << "kimi-k2-0905-preview",
                                     "moonshot-v1-32k" >>,
                       rateLimit |-> [ delayBetweenRequests |-> 20000 ] ] ]

\* requiredDelay of a backend in seconds, the unit in which time passes here
requiredDelay(provider) ==
    PROVIDERS[provider].rateLimit.delayBetweenRequests \div 1000

\* a limiter that never makes its caller wait
waitTimeNone(timeSinceLastRequest, delay) == 0

\* waitForRateLimit: the time the caller is suspended for
\* (requiredDelay - timeSinceLastRequest when that is positive)
waitTime(timeSinceLastRequest, delay) ==
    IF timeSinceLastRequest < delay
    THEN delay - timeSinceLastRequest
    ELSE 0

\* callCerebras written from a copy of callOpenRouter with two names left
AdapterUsesCopied ==
    [ openrouter |-> [ pool |-> "openrouter", cursor |-> "openrouter",
                       clock |-> "openrouter", evict |-> "openrouter" ],
      cerebras   |-> [ pool |-> "cerebras", cursor |-> "cerebras",
                       clock |-> "openrouter", evict |-> "openrouter" ],
      moonshot   |-> [ pool |-> "moonshot", cursor |-> "moonshot",
                       clock |-> "moonshot", evict |-> "moonshot" ] ]

\* the names each adapter passes on: keyPools.<pool>, getNextKey(<cursor>,
\* keys), waitForRateLimit(<clock>), removeKey(<evict>, key)
AdapterUses ==
    [ openrouter |-> [ pool |-> "openrouter", cursor |-> "openrouter",
                       clock |-> "openrouter", evict |-> "openrouter" ],
      cerebras   |-> [ pool |-> "cerebras", cursor |-> "cerebras",
                       clock |-> "cerebras", evict |-> "cerebras" ],
      moonshot   |-> [ pool |-> "moonshot", cursor |-> "moonshot",
                       clock |-> "moonshot", evict |-> "moonshot" ] ]

limits == [ cerebras |-> 10, openrouter |-> 10, moonshot |-> 2 ]

\* needsReview threshold, in hundredths (confidence < 0.7)
ReviewThreshold == 70

\* ------------------------------------------------- rotation scheduler
\* a scheduler that moves on one request late (> for >=)
getNextProviderLate(rot) ==
    IF rot.requestCount > limits[rot.currentProvider]
    THEN [ currentProvider |->
             CASE rot.currentProvider = "cerebras"   -> "openrouter"
               [] rot.currentProvider = "openrouter" -> "moonshot"
               [] OTHER                              -> "cerebras",
           requestCount |-> 0 ]
    ELSE rot

\* a scheduler that moves on without resetting the counter
getNextProviderNoReset(rot) ==
    IF rot.requestCount >= limits[rot.currentProvider]
    THEN [ currentProvider |->
             CASE rot.currentProvider = "cerebras"   -> "openrouter"
               [] rot.currentProvider = "openrouter" -> "moonshot"
               [] OTHER                              -> "cerebras",
           requestCount |-> rot.requestCount - limits[rot.currentProvider] + 1 ]
    ELSE rot

\* a scheduler that moves on with every request
getNextProviderEvery(rot) ==
    [ currentProvider |->
        CASE rot.currentProvider = "cerebras"   -> "openrouter"
          [] rot.currentProvider = "openrouter" -> "moonshot"
          [] OTHER                              -> "cerebras",
      requestCount |-> 0 ]

getNextProvider(rot) ==
    IF rot.requestCount >= limits[rot.currentProvider]
    THEN [ currentProvider |->
             CASE rot.currentProvider = "cerebras"   -> "openrouter"
               [] rot.currentProvider = "openrouter" -> "moonshot"
               [] OTHER                              -> "cerebras",
           requestCount |-> 0 ]
    ELSE rot

incrementProviderCount(rot) ==
    [ rot EXCEPT !.requestCount = @ + 1 ]

\* ---------------------------------------------------- credential pools
\* a cursor that is returned to the caller but not advanced
getNextKeyStuck(keys, ptr) ==
    IF Len(keys) = 0
    THEN [ isNull |-> TRUE,  key |-> 0, ptr |-> ptr ]
    ELSE [ isNull |-> FALSE, key |-> keys[ptr + 1], ptr |-> ptr ]

\* getNextKey(provider, keys): the key at the cursor (0-based) and the
\* advanced cursor; null on an empty pool.
getNextKey(keys, ptr) ==
    IF Len(keys) = 0
    THEN [ isNull |-> TRUE,  key |-> 0, ptr |-> ptr ]
    ELSE [ isNull |-> FALSE, key |-> keys[ptr + 1],
           ptr |-> (ptr + 1) % Len(keys) ]

\* indexOf: 0-based index of the first occurrence, -1 when absent
indexOf(keys, k) ==
    IF \E i \in 1..Len(keys) : keys[i] = k
    THEN (CHOOSE i \in 1..Len(keys) :
             keys[i] = k /\ \A j \in 1..(i - 1) : keys[j] # k) - 1
    ELSE -1

\* splice(index, 1)
splice1(keys, index) ==
    [ i \in 1..(Len(keys) - 1) |->
        IF i <= index THEN keys[i] ELSE keys[i + 1] ]

\* an eviction that leaves the cursor where it was
removeKeyNoReset(keys, ptr, keyToRemove) ==
    LET index == indexOf(keys, keyToRemove) IN
    IF index > -1
    THEN [ keys |-> splice1(keys, index), ptr |-> ptr ]
    ELSE [ keys |-> keys, ptr |-> ptr ]

removeKey(keys, ptr, keyToRemove) ==
    LET index == indexOf(keys, keyToRemove) IN
    IF index > -1
    THEN LET ks == splice1(keys, index) IN
         [ keys |-> ks, ptr |-> IF ptr >= Len(ks) THEN 0 ELSE ptr ]
    ELSE [ keys |-> keys, ptr |-> ptr ]

\* ------------------------------------------------------- reply texts
\* A reply text is a sequence of tokens (whitespace is not represented):
\*   T  prose without braces or fences      F  a ``` fence (``` or ```json)
\*   L  a stray '{' in prose                R  a stray '}' in prose
\*   O  the text of one JSON object, Payloads[p]
\*   V  the text of a JSON value that is not an object (p = 0: null,
\*      otherwise a number)
Tok(kind, p) == [k |-> kind, p |-> p]
T == Tok("T", 0)
F == Tok("F", 0)
L == Tok("L", 0)
R == Tok("R", 0)
O(p) == Tok("O", p)
V(p) == Tok("V", p)

Opens(tok)  == tok.k \in {"L", "O"}
Closes(tok) == tok.k \in {"R", "O"}

\* text[a..b] matches \{[\s\S]*\} anchored at both ends
BraceSpan(text, a, b) ==
    /\ a <= b
    /\ Opens(text[a])
    /\ Closes(text[b])
    /\ (a = b => text[a].k = "O")

\* the least / greatest element of a non-empty set of positions
least(S)    == CHOOSE a \in S : \A b \in S : a <= b
greatest(S) == CHOOSE a \in S : \A b \in S : a >= b

\* text[i] and text[j] are fences around a span \{[\s\S]*\}
fenceHit(text, i, j) ==
    /\ text[i].k = "F" /\ text[j].k = "F"
    /\ i + 1 <= j - 1
    /\ BraceSpan(text, i + 1, j - 1)

fenceStarts(text) ==
    { i \in 1..Len(text) : \E j \in 1..Len(text) : fenceHit(text, i, j) }

fenceEnds(text, i) == { j \in 1..Len(text) : fenceHit(text, i, j) }

braceStarts(text) ==
    { i \in 1..Len(text) : \E j \in 1..Len(text) : BraceSpan(text, i, j) }

braceEnds(text, i) == { j \in 1..Len(text) : BraceSpan(text, i, j) }

inner(text, i, j) == SubSeq(text, i + 1, j - 1)
span(text, i, j)  == SubSeq(text, i, j)

fenceCapture(text, i) == inner(text, i, greatest(fenceEnds(text, i)))
braceCapture(text, i) == span(text, i, greatest(braceEnds(text, i)))

\* jsonText after `responseText.match(/```(?:json)?\s*(\{[\s\S]*\})\s*```/)`:
\* leftmost opening fence, greedy up to the last closing fence; the captured
\* group replaces the text when the pattern matches
jsonMatch(text) ==
    IF fenceStarts(text) = {}
    THEN text
    ELSE fenceCapture(text, least(fenceStarts(text)))

\* jsonText after `jsonText.match(/\{[\s\S]*\}/)`: first '{' to the last '}'
objectMatch(text) ==
    IF braceStarts(text) = {}
    THEN text
    ELSE braceCapture(text, least(braceStarts(text)))

\* sample JSON objects a backend may reply with
GoodFields(conf) ==
    [ isEcosystemOrg |-> Bool(TRUE),
      type           |-> Str(<< "incubator" >>),
      category       |-> Str(<< "SUPPORT", "INFRASTRUCTURE" >>),
      subcategory    |-> Str(<< "Generalist", "Incubators", "&", "Accelerators" >>),
      role_summary   |-> Str(<< "Runs", "an", "accelerator", "in", "Dubai" >>),
      confidence     |-> Num(conf) ]

\* o with the keys of extra added (extra wins)
Merge(o, extra) ==
    [ k \in DOMAIN o \cup DOMAIN extra |->
        IF k \in DOMAIN extra THEN extra[k] ELSE o[k] ]

\* o without the key k
Without(o, k) == [ j \in DOMAIN o \ {k} |-> o[j] ]

Payloads ==
    << GoodFields(70),
       Merge(GoodFields(140), [ needsReview |-> Bool(TRUE),
                                degraded    |-> Bool(TRUE),
                                provider    |-> Str(<< "huggingface" >>),
                                model       |-> JNull ]),
       Merge(GoodFields(-30), [ needsReview |-> Bool(FALSE),
                                type        |-> Str(<< "charity" >>) ]),
       Merge(GoodFields(69),  [ website     |-> Str(<< "https://acme.ae" >>),
                                twitter     |-> Str(<< "@acme" >>),
                                country     |-> Str(<< "United", "Arab", "Emirates" >>),
                                name        |-> Str(<< "Acme", "Labs" >>),
                                description |-> Str(<< "An", "accelerator" >>) ]),
       Without(GoodFields(80), "category"),
       Merge(GoodFields(80), [ confidence |-> Str(<< "0.8" >>) ]),
       Merge(GoodFields(80), [ subcategory |-> Str(<< >>) ]) >>

EmptyObj == [ k \in {} |-> JNull ]

\* JSON.parse(jsonText): a SyntaxError unless the text is exactly one JSON
\* value
JSONparse(text) ==
    IF Len(text) = 1 /\ text[1].k = "O"
    THEN [ threw |-> FALSE, isObj |-> TRUE,  obj |-> Payloads[text[1].p] ]
    ELSE IF Len(text) = 1 /\ text[1].k = "V"
    THEN [ threw |-> FALSE, isObj |-> FALSE,
           obj |-> IF text[1].p = 0 THEN [ isJSNull |-> JNull ] ELSE EmptyObj ]
    ELSE [ threw |-> TRUE,  isObj |-> FALSE, obj |-> EmptyObj ]

Null == [ isNull |-> TRUE, obj |-> EmptyObj ]
Obj(o) == [ isNull |-> FALSE, obj |-> o ]

\* a parser that forgets to clamp
clampNone(confidence) == confidence

\* Math.max(0, Math.min(1, confidence)), in hundredths
clamp(confidence) == Max(0, Min(100, confidence))

Returned(ret) == [ thrown |-> FALSE, ret |-> ret ]
Thrown        == [ thrown |-> TRUE,  ret |-> Null ]

\* field checks that look at the types only and take an empty string
validateTypesOnly(result) ==
    IF TypeOf(result, "isEcosystemOrg") # "bool"
    THEN Returned(Null)
    ELSE IF TypeOf(result, "category") # "str"
    THEN Returned(Null)
    ELSE IF TypeOf(result, "subcategory") # "str"
    THEN Returned(Null)
    ELSE IF TypeOf(result, "role_summary") # "str"
    THEN Returned(Null)
    ELSE IF TypeOf(result, "confidence") # "num"
    THEN Returned(Null)
    ELSE Returned(Obj([ result EXCEPT !.confidence =
                          Num(clamp(result.confidence.n)) ]))

\* the field checks and the clamp, on the value JSON.parse produced
validate(result) ==
    IF TypeOf(result, "isEcosystemOrg") # "bool"
    THEN Returned(Null)
    ELSE IF ~Truthy(result, "category") \/ TypeOf(result, "category") # "str"
    THEN Returned(Null)
    ELSE IF ~Truthy(result, "subcategory") \/ TypeOf(result, "subcategory") # "str"
    THEN Returned(Null)
    ELSE IF ~Truthy(result, "role_summary") \/ TypeOf(result, "role_summary") # "str"
    THEN Returned(Null)
    ELSE IF TypeOf(result, "confidence") # "num"
    THEN Returned(Null)
    ELSE Returned(Obj([ result EXCEPT !.confidence =
                          Num(clamp(result.confidence.n)) ]))

\* what follows JSON.parse: a SyntaxError and a property read on null throw
afterParse(parsed) ==
    IF parsed.threw
    THEN Thrown
    ELSE IF ~parsed.isObj /\ Has(parsed.obj, "isJSNull")
    THEN Thrown
    ELSE validate(parsed.obj)

\* the body of parseAIResponse's try block: thrown is TRUE when a statement
\* of the block throws (undefined.trim() for a content that is no string)
parseBody(content) ==
    IF ~content.defined
    THEN Thrown
    ELSE afterParse(JSONparse(objectMatch(jsonMatch(content.text))))

\* catch (err) { return null }
catchNull(r) == IF r.thrown THEN Null ELSE r.ret

\* parseAIResponse: the try block with its catch
parseAIResponse(content) == catchNull(parseBody(content))

\* ------------------------------------------------ backend responses
\* What one fetch() may produce:
\*   neterr    fetch rejects (network error)
\*   s429      HTTP 429
\*   s500      another non-2xx status
\*   badbody   response.json() rejects (malformed body)
\*   nochoices a body without choices[0].message
\*   message   a body whose choices[0].message carries content / reasoning
Undefined == [ defined |-> FALSE, text |-> << >> ]
Text(t)   == [ defined |-> TRUE,  text |-> t ]

Failure(kind) == [ kind |-> kind, content |-> Undefined, reasoning |-> Undefined ]
Message(c, r) == [ kind |-> "message", content |-> c, reasoning |-> r ]

Wrappings(p) ==
    { << O(p) >>,
      << T, F, O(p), F >>,
      << T, O(p), T >>,
      << T, L, T, R, T, F, O(p), F >>,
      << O(p), T, L, T, R >> }

ReplyTexts ==
    Wrappings(1)
      \cup { << O(p) >> : p \in 2..Len(Payloads) }
      \cup { << >>, << T >>, << V(0) >>, << V(1) >>, << L, T >> }

Responses ==
    { Failure(k) : k \in {"neterr", "s429", "s500", "badbody", "nochoices"} }
      \cup { Message(Text(t), Undefined) : t \in ReplyTexts }
      \cup { Message(Undefined, Undefined),
             Message(Undefined, Text(<< O(1) >>)),
             Message(Text(<< >>), Text(<< T, F, O(3), F >>)) }

\* JS truthiness of a string-or-undefined value
TruthyText(c) == c.defined /\ c.text # << >>

\* ----------------------------------------------------------- adapters
\* tagging written as { provider, model, ...result }: the reply's keys win
tagResultReplyWins(result, provider, model) ==
    [ k \in DOMAIN result \cup {"provider", "model"} |->
        IF k \in DOMAIN result THEN result[k]
        ELSE IF k = "provider" THEN Str(<< provider >>) ELSE Str(<< model >>) ]

\* { ...result, provider: <provider>, model: <model> }
tagResult(result, provider, model) ==
    Merge(result, [ provider |-> Str(<< provider >>), model |-> Str(<< model >>) ])

Continue == [ thrown |-> FALSE, evict |-> FALSE, ret |-> Null ]

\* if (result) return { ...result, provider, model }
onParsed(provider, model, result) ==
    IF ~result.isNull
    THEN [ Continue EXCEPT !.ret = Obj(tagResult(result.obj, provider, model)) ]
    ELSE Continue

\* openrouter: message.content || message.reasoning || ''
contentOrReasoning(resp) ==
    IF TruthyText(resp.content) THEN resp.content
    ELSE IF TruthyText(resp.reasoning) THEN resp.reasoning
    ELSE Text(<< >>)

\* openrouter: if (!content) continue; all: parseAIResponse(content)
onContent(provider, model, content) ==
    IF provider = "openrouter" /\ ~TruthyText(content)
    THEN Continue
    ELSE onParsed(provider, model, parseAIResponse(content))

\* an adapter that treats a 429 like any other error status: no eviction
attemptBodyKeepsKey(provider, model, resp) ==
    CASE resp.kind = "neterr"    -> [ Continue EXCEPT !.thrown = TRUE ]
      [] resp.kind = "s429"      -> Continue
      [] resp.kind = "s500"      -> Continue
      [] resp.kind = "badbody"   -> [ Continue EXCEPT !.thrown = TRUE ]
      [] resp.kind = "nochoices" -> Continue
      [] OTHER ->
           onContent(provider, model,
                     IF provider = "openrouter"
                     THEN contentOrReasoning(resp)
                     ELSE resp.content)

\* an adapter that evicts the credential on every error status
attemptBodyEvictsOnError(provider, model, resp) ==
    CASE resp.kind = "neterr"    -> [ Continue EXCEPT !.thrown = TRUE ]
      [] resp.kind = "s429"      -> [ Continue EXCEPT !.evict = TRUE ]
      [] resp.kind = "s500"      -> [ Continue EXCEPT !.evict = TRUE ]
      [] resp.kind = "badbody"   -> [ Continue EXCEPT !.thrown = TRUE ]
      [] resp.kind = "nochoices" -> Continue
      [] OTHER ->
           onContent(provider, model,
                     IF provider = "openrouter"
                     THEN contentOrReasoning(resp)
                     ELSE resp.content)

\* The try block of one iteration of an adapter's model loop, after the
\* rate-limit wait, for the response resp of the fetch.  ret is the value the
\* adapter returns from inside the loop (Null: it goes on to the next model).
attemptBody(provider, model, resp) ==
    CASE resp.kind = "neterr"    -> [ Continue EXCEPT !.thrown = TRUE ]
      [] resp.kind = "s429"      -> [ Continue EXCEPT !.evict = TRUE ]
      [] resp.kind = "s500"      -> Continue
      [] resp.kind = "badbody"   -> [ Continue EXCEPT !.thrown = TRUE ]
      [] resp.kind = "nochoices" -> Continue
      [] OTHER ->
           onContent(provider, model,
                     IF provider = "openrouter"
                     THEN contentOrReasoning(resp)
                     ELSE resp.content)

\* catch (err) { ...; continue }
catchContinue(r) == IF r.thrown THEN Continue ELSE r

\* the iteration with its catch
attempt(provider, model, resp) ==
    catchContinue(attemptBody(provider, model, resp))

\* ------------------------------------------------ graceful degradation
\* a default that depends on the request it is built for
createDefaultFromRequest(orgData) ==
    [ isEcosystemOrg |-> Bool(~orgData.isNull),
      type           |-> Str(<< "other" >>),
      category       |-> Str(<< "GROWTH", "&", "INNOVATION" >>),
      subcategory    |-> Str(<< "General", "Entity" >>),
      role_summary   |-> Str(<< "Organisation", "pending", "manual",
                                "classification", "and", "review" >>),
      confidence     |-> Num(0),
      provider       |-> JNull,
      model          |-> JNull,
      needsReview    |-> Bool(TRUE),
      degraded       |-> Bool(TRUE) ]

createDefaultClassification(orgData) ==
    [ isEcosystemOrg |-> Bool(FALSE),
      type           |-> Str(<< "other" >>),
      category       |-> Str(<< "GROWTH", "&", "INNOVATION" >>),
      subcategory    |-> Str(<< "General", "Entity" >>),
      role_summary   |-> Str(<< "Organisation", "pending", "manual",
                                "classification", "and", "review" >>),
      confidence     |-> Num(0),
      provider       |-> JNull,
      model          |-> JNull,
      needsReview    |-> Bool(TRUE),
      degraded       |-> Bool(TRUE) ]

\* --------------------------------------------------------- requests
\* orgData: null, or an object whose name may be missing/empty
OrgDatas ==
    { [ isNull |-> TRUE,  name |-> "" ],
      [ isNull |-> FALSE, name |-> "" ],
      [ isNull |-> FALSE, name |-> "Acme Labs" ] }

\* a validation that only looks for a request object
validInputAnyObject(orgData) == ~orgData.isNull

\* if (!orgData || !orgData.name): the request is rejected
validInput(orgData) == ~orgData.isNull /\ orgData.name # ""

\* options: omitted (the default parameter applies), an object that may or
\* may not carry enableGracefulDegradation, or null
DefaultOptions == [ kind |-> "omitted", hasKey |-> TRUE, value |-> TRUE ]
OptionsSet ==
    { DefaultOptions,
      [ kind |-> "object", hasKey |-> TRUE,  value |-> FALSE ],
      [ kind |-> "object", hasKey |-> FALSE, value |-> FALSE ],
      [ kind |-> "null",   hasKey |-> FALSE, value |-> FALSE ] }

\* the degradation flag read the wrong way round
degradeOrNullInverted(options, orgData) ==
    IF options.kind = "null"
    THEN [ returned |-> "threw", result |-> EmptyObj ]
    ELSE IF options.hasKey /\ options.value
    THEN [ returned |-> "null", result |-> EmptyObj ]
    ELSE [ returned |-> "object", result |-> createDefaultClassification(orgData) ]

\* `options.enableGracefulDegradation ? createDefaultClassification(orgData)
\* : null`; reading a property of null throws
degradeOrNull(options, orgData) ==
    IF options.kind = "null"
    THEN [ returned |-> "threw", result |-> EmptyObj ]
    ELSE IF options.hasKey /\ options.value
    THEN [ returned |-> "object", result |-> createDefaultClassification(orgData) ]
    ELSE [ returned |-> "null", result |-> EmptyObj ]

\* fallbacks pushed in another order (moonshot before openrouter)
providerOrderMoonshotEarly(primary) ==
    << primary >>
      \o (IF primary # "cerebras"   THEN << "cerebras" >>   ELSE << >>)
      \o (IF primary # "moonshot"   THEN << "moonshot" >>   ELSE << >>)
      \o (IF primary # "openrouter" THEN << "openrouter" >> ELSE << >>)

\* providerOrder: the primary first, then the others in the fixed order
providerOrderOf(primary) ==
    << primary >>
      \o (IF primary # "cerebras"   THEN << "cerebras" >>   ELSE << >>)
      \o (IF primary # "openrouter" THEN << "openrouter" >> ELSE << >>)
      \o (IF primary # "moonshot"   THEN << "moonshot" >>   ELSE << >>)

\* needsReview taken from the reply when the reply carries one
finishLiveKeepsReply(result) ==
    Merge(result, [ needsReview |-> IF Has(result, "needsReview")
                                    THEN result.needsReview
                                    ELSE Bool(result.confidence.n < ReviewThreshold),
                    degraded    |-> Bool(FALSE) ])

\* what classifyWithAI does with a non-null adapter result
\* (result.needsReview = result.confidence < 0.7; result.degraded = false)
finishLive(result) ==
    Merge(result, [ needsReview |-> Bool(result.confidence.n < ReviewThreshold),
                    degraded    |-> Bool(FALSE) ])

\* ------------------------------------------------- environment values
\* The value of an environment variable: undefined, or a string, held as the
\* sequence of the pieces split(',') cuts it into.  A piece is a credential
\* (key 1, 2, ...) or the empty text (key 0), with or without whitespace
\* around it (pad).  The empty string is the single piece [0, no pad].
UndefinedEnv == [ defined |-> FALSE, pieces |-> << >> ]
EnvString(pieces) == [ defined |-> TRUE, pieces |-> pieces ]
Piece(key, pad) == [ key |-> key, pad |-> pad ]
EmptyString == EnvString(<< Piece(0, FALSE) >>)

\* key.trim(): the padding goes, the text stays
trim(piece) == Piece(piece.key, FALSE)

\* loadKeys: [] for an unset or empty variable, else
\* split(',').map(key => key.trim()).filter(key => key.length > 0)
loadKeys(envValue) ==
    IF ~envValue.defined \/ envValue = EmptyString
    THEN << >>
    ELSE LET trimmed == [ i \in 1..Len(envValue.pieces) |->
                            trim(envValue.pieces[i]) ]
             nonEmpty(piece) == piece.key # 0
             kept == SelectSeq(trimmed, nonEmpty)
         IN  [ i \in 1..Len(kept) |-> kept[i].key ]

\* ------------------------------------------------------------- state
VARIABLES
    keyPools,          \* provider -> sequence of credentials
    keyPointers,       \* provider -> 0-based round-robin cursor
    providerRotation,  \* [currentProvider, requestCount]
    pc,                \* "boot", "idle", "loop", "adapter", "done"
    orgData,           \* the request being classified
    options,           \* its options argument
    primaryProvider,   \* classifyWithAI's local primaryProvider
    providerOrder,     \* classifyWithAI's local providerOrder
    pi,                \* position of the for-loop in providerOrder
    mi,                \* position of the adapter's for-loop in its models
    returned,          \* "pending", "object", "null", "threw"
    result,            \* the object returned when returned = "object"
    attempts,          \* adapters invoked by this request, in order
    callLog,           \* providers of this request's outbound calls, in order
    waits,             \* waitForRateLimit calls of this request
    served,            \* results the primary backend produced so far (history,
                       \* counted up to MaxServed)
    lastKind           \* how the backend answered the outbound call of the
                       \* step just taken ("none": the step made no call;
                       \* "failed": a failure that is no quota signal;
                       \* "rejected": a message parseAIResponse turned down)
\* waitForRateLimit only delays the caller and stamps lastRequestTime; the
\* clock itself is not part of this state, its calls are counted in waits.

\* The pool operations called directly (they are exports of the module)
VARIABLES
    env,               \* provider -> the value of its keyEnvVar in process.env
    lastOp,            \* the last pool operation and what it returned (history)
    evicted,           \* provider -> credentials removeKey removed (history)
    run                \* keys returned by the getNextKey calls made on
                       \* lastOp.provider since its pool last changed, the
                       \* latest Len(pool) of them (history)

direct == << env, lastOp, evicted, run >>

\* The adapters with the clock: time passes in seconds
VARIABLES
    adapter,           \* the backend whose adapter is running, or "none"
    modelIdx,          \* position of its for-loop in its models
    key,               \* the credential of the attempt in progress (0: none)
    sleepLeft,         \* seconds until waitForRateLimit's timer is due
    sinceLastRequest,  \* provider -> Date.now() - lastRequestTime[provider],
                       \* held up to requiredDelay (the code compares it
                       \* with requiredDelay only)
    sinceCall,         \* provider -> seconds since the last outbound call to
                       \* it, held up to requiredDelay (history)
    openWaits,         \* the waitForRateLimit calls made since the last
                       \* outbound call, by clock name (history)
    slept              \* the attempt in progress was suspended (history)

timed == << adapter, modelIdx, key, sleepLeft, sinceLastRequest, sinceCall,
            openWaits, slept >>

\* The pipeline around classifyWithAI (index.js)
VARIABLES
    item,              \* the scraped item main is working on
    aiResult,          \* main's aiResult for it: null or an object
    aiPath,            \* how aiResult came about: "none", "skipped" (short
                       \* description), "live", "exhausted" (history)
    storage,           \* the documents of the Organisation collection
    reviewQueue,       \* validator.js' reviewQueue
    savedDoc,          \* what processOrganisation returned last
    processed          \* items this run has processed (history)

pipeline == << item, aiResult, aiPath, storage, reviewQueue, savedDoc,
               processed >>

\* retryPageGoto and the ErrorSummary of a scraping run (enhanced-scraper.js)
VARIABLES
    gotoPc,            \* "idle", "goto" (page.goto is about to be called),
                       \* "waiting" (in the setTimeout before a retry),
                       \* "returned"
    gotoUrl,           \* the url the call in hand was made with
    withSummary,       \* an ErrorSummary was passed (errorSummary is not null)
    attemptNo,         \* retryPageGoto's loop variable attempt
    response,          \* what retryPageGoto returned
    gotoLog,           \* how page.goto ended in each attempt of the call in
                       \* hand (history)
    sleeps,            \* the delays the call in hand has waited, in ms (history)
    pageLoadErrors,    \* errorSummary.pageLoadErrors
    httpErrors,        \* errorSummary.httpErrors
    loads              \* calls of retryPageGoto that have returned (history)

paging == << gotoPc, gotoUrl, withSummary, attemptNo, response, gotoLog, sleeps,
             pageLoadErrors, httpErrors, loads >>

\* validator.js' review queue, its functions called in any order
VARIABLES
    added,             \* the [org, errors] pairs addToReviewQueue was called
                       \* with since the last clearReviewQueue (history)
    validation         \* what the last validateOrganisation call returned

queueing == << added, validation >>

\* classifyWithAI requests in flight at the same time
VARIABLES
    inFlight           \* lane -> the request it carries: its stage ("idle":
                       \* none; "flight": awaiting an adapter), its
                       \* primaryProvider and its position in providerOrder

flights == << inFlight >>

\* adapters of several requests at waitForRateLimit at the same time
VARIABLES
    waiters            \* lane -> the adapter call it carries: its stage
                       \* ("idle": none; "sleeping": suspended in
                       \* waitForRateLimit; "inflight": fetch issued), its
                       \* backend and the seconds left on its timer

waiting == << waiters >>

\* The single-provider classifier (lib/aiClassifier.js)
VARIABLES
    API_KEYS,          \* the module's pool of credentials
    currentKeyIndex,   \* the round-robin pointer into it (0-based)
    singlePc,          \* "unloaded": module not evaluated; "idle": no call;
                       \* "call": classifyWithAI awaits callOpenRouter;
                       \* "done": classifyWithAI has ended
    keyAttempts,       \* classifyWithAI's `attempts`
    keyBudget,         \* classifyWithAI's `maxAttempts`
    activeKey,         \* the key picked for this round (0: undefined)
    modelAt,           \* position of the for-loop in MODELS
    ended,             \* how classifyWithAI ended: "pending", "null",
                       \* "value" (what JSON.parse gave), "throw"
    picks,             \* getRotatedKey calls of this classifyWithAI (history)
    entryKeys,         \* API_KEYS.length at its entry (history)
    lastOutcome        \* how the last awaited callOpenRouter ended: "none"
                       \* or one of CallOutcomes (history)

single == << API_KEYS, currentKeyIndex, singlePc, keyAttempts, keyBudget,
             activeKey, modelAt, ended, picks, entryKeys, lastOutcome >>

others == << paging, queueing, flights, waiting, single >>

vars == << keyPools, keyPointers, providerRotation, pc, orgData, options,
           primaryProvider, providerOrder, pi, mi, returned, result,
           attempts, callLog, waits, served, lastKind, direct,
           timed, pipeline, others >>

request == << providerRotation, orgData, options, primaryProvider,
              providerOrder, pi, mi, returned, result, attempts, callLog,
              waits, served, lastKind >>

globals == << keyPools, keyPointers, providerRotation >>

\* the classifier's own state
classifier == << keyPools, keyPointers, pc, request, direct, timed >>

\* what the steps of retryPageGoto leave alone
outsidePaging == << classifier, pipeline, queueing, flights, waiting,
                    single >>

\* what a call of processOrganisation leaves alone
outsideStore == << classifier, aiPath, paging, queueing, flights, waiting,
                   single >>

\* what the calls of the review queue's functions leave alone
outsideQueue == << classifier, item, aiResult, aiPath, storage, savedDoc,
                   processed, paging, flights, waiting, single >>

\* what the steps of concurrent requests leave alone
outsideFlights == << keyPools, keyPointers, pc, orgData, options,
                     primaryProvider, providerOrder, pi, mi, returned, result,
                     attempts, callLog, waits, served, lastKind, direct, timed,
                     pipeline, paging, queueing, waiting, single >>

\* what the adapters of concurrent requests leave alone at the clock
outsideWaiting == << keyPools, keyPointers, pc, request, direct, adapter,
                     modelIdx, key, sleepLeft, openWaits, slept, pipeline,
                     paging, queueing, flights, single >>

\* what the single-provider classifier leaves alone
outsideSingle == << classifier, pipeline, paging, queueing, flights, waiting >>

\* credential lists one environment variable may hold: distinct credentials,
\* numbered in loading order
EnvKeyLists == { [ i \in 1..n |-> i ] : n \in 0..MaxKeys }

\* the pools initializeKeyPools may load: MaxKeys credentials or fewer in all
EnvKeyPools ==
    { pools \in [ ProviderNames -> EnvKeyLists ] :
        Len(pools["cerebras"]) + Len(pools["openrouter"])
          + Len(pools["moonshot"]) <= MaxKeys }

NoRequest == [ isNull |-> TRUE, name |-> "" ]

\* requests that may be in flight at the same time
MaxInFlight == 2
Lanes == 1..MaxInFlight

\* a lane that carries no request
NoFlight == [ stage |-> "idle", primary |-> "cerebras", at |-> 1 ]

\* a lane in which no adapter is at the clock
NoWaiter == [ stage |-> "idle", provider |-> "cerebras", left |-> 0 ]

\* no pool operation was called directly yet
NoOp == [ op |-> "none", provider |-> "cerebras", isNull |-> TRUE, key |-> 0 ]

\* module load: empty pools, cursors at 0, rotation at cerebras/0
Init ==
    /\ keyPools = [ p \in ProviderNames |-> << >> ]
    /\ keyPointers = [ p \in ProviderNames |-> 0 ]
    /\ providerRotation = [ currentProvider |-> "cerebras", requestCount |-> 0 ]
    /\ pc = "boot"
    /\ orgData = NoRequest
    /\ options = DefaultOptions
    /\ primaryProvider = "cerebras"
    /\ providerOrder = << >>
    /\ pi = 1
    /\ mi = 1
    /\ returned = "pending"
    /\ result = EmptyObj
    /\ attempts = << >>
    /\ callLog = << >>
    /\ waits = 0
    /\ served = 0
    /\ lastKind = "none"
    /\ env = [ p \in ProviderNames |-> UndefinedEnv ]
    /\ lastOp = NoOp
    /\ evicted = [ p \in ProviderNames |-> {} ]
    /\ run = << >>
    /\ adapter = "none"
    /\ modelIdx = 1
    /\ key = 0
    /\ sleepLeft = 0
    /\ sinceLastRequest = [ p \in ProviderNames |-> requiredDelay(p) ]
    /\ sinceCall = [ p \in ProviderNames |-> requiredDelay(p) ]
    /\ openWaits = << >>
    /\ slept = FALSE
    /\ item = EmptyObj
    /\ aiResult = Null
    /\ aiPath = "none"
    /\ storage = {}
    /\ reviewQueue = << >>
    /\ savedDoc = Null
    /\ processed = 0
    /\ gotoPc = "idle"
    /\ gotoUrl = "none"
    /\ withSummary = FALSE
    /\ attemptNo = 1
    /\ response = [ isNull |-> TRUE, status |-> 0 ]
    /\ gotoLog = << >>
    /\ sleeps = << >>
    /\ pageLoadErrors = << >>
    /\ httpErrors = << >>
    /\ loads = 0
    /\ added = << >>
    /\ inFlight = [ r \in Lanes |-> NoFlight ]
    /\ waiters = [ r \in Lanes |-> NoWaiter ]
    /\ API_KEYS = << >>
    /\ currentKeyIndex = 0
    /\ singlePc = "unloaded"
    /\ keyAttempts = 0
    /\ keyBudget = 0
    /\ activeKey = 0
    /\ modelAt = 1
    /\ ended = "pending"
    /\ picks = 0
    /\ entryKeys = 0
    /\ lastOutcome = "none"
    /\ validation = [ valid |-> TRUE, errors |-> << >> ]

\* initializeKeyPools(): each pool is loaded from its environment variable
initializeKeyPools ==
    /\ pc = "boot"
    /\ keyPools' \in EnvKeyPools
    /\ pc' = "idle"
    /\ UNCHANGED << keyPointers, providerRotation, orgData, options,
                    primaryProvider, providerOrder, pi, mi, returned, result,
                    attempts, callLog, waits, served, lastKind,
                    direct, timed, pipeline, others >>

\* classifyWithAI(od, opts) up to the start of its for-loop
classifyStart(od, opts) ==
    /\ pc \in {"idle", "done"}
    /\ orgData' = od
    /\ options' = opts
    /\ attempts' = << >>
    /\ callLog' = << >>
    /\ waits' = 0
    /\ pi' = 1
    /\ mi' = 1
    /\ lastKind' = "none"
    /\ UNCHANGED << served, direct, timed, pipeline, others >>
    /\ IF ~validInput(od)
       THEN LET r == degradeOrNull(opts, od) IN
            /\ returned' = r.returned
            /\ result' = r.result
            /\ pc' = "done"
            /\ UNCHANGED << globals, primaryProvider, providerOrder >>
       ELSE /\ providerRotation' = getNextProvider(providerRotation)
            /\ primaryProvider' = providerRotation'.currentProvider
            /\ providerOrder' = providerOrderOf(primaryProvider')
            /\ returned' = "pending"
            /\ result' = EmptyObj
            /\ pc' = "loop"
            /\ UNCHANGED << keyPools, keyPointers >>

\* an adapter that waits for its rate limit before it looks at its pool
invokeAdapterWaitsFirst ==
    /\ pc = "loop"
    /\ pi <= Len(providerOrder)
    /\ LET providerName == providerOrder[pi] IN
       /\ attempts' = Append(attempts, providerName)
       /\ IF Len(keyPools[providerName]) = 0
          THEN /\ pi' = pi + 1
               /\ pc' = "loop"
          ELSE /\ pi' = pi
               /\ pc' = "adapter"
       /\ mi' = 1
    /\ waits' = waits + 1
    /\ lastKind' = "none"
    /\ UNCHANGED << globals, orgData, options, primaryProvider, providerOrder,
                    returned, result, callLog, served, direct, timed,
                    pipeline, others >>

\* one iteration of classifyWithAI's for-loop enters the adapter of
\* providerOrder[pi]; an adapter with an empty pool returns null at once
invokeAdapter ==
    /\ pc = "loop"
    /\ pi <= Len(providerOrder)
    /\ LET providerName == providerOrder[pi] IN
       /\ attempts' = Append(attempts, providerName)
       /\ IF Len(keyPools[providerName]) = 0
          THEN /\ pi' = pi + 1
               /\ pc' = "loop"
          ELSE /\ pi' = pi
               /\ pc' = "adapter"
       /\ mi' = 1
    /\ lastKind' = "none"
    /\ UNCHANGED << globals, orgData, options, primaryProvider, providerOrder,
                    returned, result, callLog, waits, served, direct,
                    timed, pipeline, others >>

\* an adapter that leaves out the model after a failed one
afterModelSkipsOne(next) ==
    IF next + 1 > Len(PROVIDERS[providerOrder[pi]].models)
    THEN /\ pc' = "loop"
         /\ pi' = pi + 1
         /\ mi' = 1
    ELSE /\ pc' = "adapter"
         /\ pi' = pi
         /\ mi' = next + 1

\* an adapter that tries a failed model once more as long as the pool
\* holds a credential
afterModelAgain(next) ==
    IF next > Len(PROVIDERS[providerOrder[pi]].models)
         \/ keyPools'[providerOrder[pi]] = << >>
    THEN /\ pc' = "loop"
         /\ pi' = pi + 1
         /\ mi' = 1
    ELSE /\ pc' = "adapter"
         /\ pi' = pi
         /\ mi' = next - 1

\* an adapter that gives up after its first failed model
afterModelGivesUp(next) ==
    /\ pc' = "loop"
    /\ pi' = pi + 1
    /\ mi' = 1

\* the adapter's for-loop is over (return null) when no model is left
afterModel(next) ==
    IF next > Len(PROVIDERS[providerOrder[pi]].models)
    THEN /\ pc' = "loop"
         /\ pi' = pi + 1
         /\ mi' = 1
    ELSE /\ pc' = "adapter"
         /\ pi' = pi
         /\ mi' = next

\* the counter advanced for every result, primary or fallback
countAlways(rot, isPrimary) == incrementProviderCount(rot)

\* if (isPrimary) { incrementProviderCount(); }
countIfPrimary(rot, isPrimary) ==
    IF isPrimary THEN incrementProviderCount(rot) ELSE rot

\* a loop that goes on to the next provider although it holds a result
keepTrying ==
    afterModel(Len(PROVIDERS[providerOrder[pi]].models) + 1)

\* `return result;` inside classifyWithAI's for-loop: the request is over
returnResult ==
    /\ pc' = "done"
    /\ UNCHANGED << pi, mi >>

\* the key is dropped from the pool on a 429, the advanced cursor kept
\* otherwise
poolAfter(keys, got, evict) ==
    IF evict
    THEN removeKey(keys, got.ptr, got.key)
    ELSE [ keys |-> keys, ptr |-> got.ptr ]

\* the outcome of one outbound call: the pool update and either the return
\* of a result through classifyWithAI or the next iteration
handleOutcome(provider, rem, out) ==
    /\ keyPools' = [ keyPools EXCEPT ![provider] = rem.keys ]
    /\ keyPointers' = [ keyPointers EXCEPT ![provider] = rem.ptr ]
    /\ IF ~out.ret.isNull
       THEN /\ providerRotation' =
                 countIfPrimary(providerRotation, provider = primaryProvider)
            /\ served' = IF provider = primaryProvider
                          THEN Min(served + 1, MaxServed)
                          ELSE served
            /\ returned' = "object"
            /\ result' = finishLive(out.ret.obj)
            /\ returnResult
       ELSE /\ afterModel(mi + 1)
            /\ UNCHANGED << providerRotation, returned, result, served >>

\* the text the adapter of provider hands to parseAIResponse
ContentRead(provider, resp) ==
    IF provider = "openrouter" THEN contentOrReasoning(resp) ELSE resp.content

\* how the call was answered: "s429" for the quota signal, "failed" for
\* the other failures (fetch or response.json() rejected, another non-2xx
\* status, no choices[0].message), "rejected" for a message whose text
\* parseAIResponse returns null for, "message" for an accepted one
replyKind(provider, resp) ==
    IF resp.kind = "message"
    THEN IF parseAIResponse(ContentRead(provider, resp)).isNull
         THEN "rejected"
         ELSE "message"
    ELSE IF resp.kind = "s429"
    THEN "s429"
    ELSE "failed"

\* one iteration with the key got from getNextKey: `if (!key) continue`,
\* else waitForRateLimit, fetch (answered by resp) and its handling
iteration(provider, model, got, resp) ==
    IF got.isNull
    THEN /\ afterModel(mi + 1)
         /\ lastKind' = "none"
         /\ UNCHANGED << globals, returned, result, callLog, waits, served >>
    ELSE /\ waits' = waits + 1
         /\ lastKind' = replyKind(provider, resp)
         /\ callLog' = Append(callLog, provider)
         /\ handleOutcome(provider,
                          poolAfter(keyPools[provider], got,
                                    attempt(provider, model, resp).evict),
                          attempt(provider, model, resp))

\* one iteration of the adapter's model loop: getNextKey, waitForRateLimit,
\* fetch (answered by resp), and the handling of the answer; a non-null
\* return of the adapter is taken up by classifyWithAI in the same step
modelAttempt(resp) ==
    /\ pc = "adapter"
    /\ iteration(providerOrder[pi],
                 PROVIDERS[providerOrder[pi]].models[mi],
                 getNextKey(keyPools[providerOrder[pi]],
                            keyPointers[providerOrder[pi]]),
                 resp)
    /\ UNCHANGED << orgData, options, primaryProvider, providerOrder, attempts,
                    direct, timed, pipeline, others >>

\* classifyWithAI after its for-loop: all providers failed
allFailed ==
    /\ pc = "loop"
    /\ pi > Len(providerOrder)
    /\ LET r == degradeOrNull(options, orgData) IN
       /\ returned' = r.returned
       /\ result' = r.result
    /\ pc' = "done"
    /\ lastKind' = "none"
    /\ UNCHANGED << globals, orgData, options, primaryProvider, providerOrder,
                    pi, mi, attempts, callLog, waits, served, direct,
                    timed, pipeline, others >>

Next ==
    \/ initializeKeyPools
    \/ \E od \in OrgDatas, opts \in OptionsSet : classifyStart(od, opts)
    \/ invokeAdapter
    \/ \E resp \in Responses : modelAttempt(resp)
    \/ allFailed

Spec == Init /\ [][Next]_vars

\* ------------------------------------------- the pool operations alone
\* The exported loadKeys / initializeKeyPools, getNextKey and removeKey
\* called in any order, on pools loaded from the environment.
Credentials == 1..MaxPieces

\* every piece: a credential or the empty text, padded or not
AllPieces == { Piece(k, pad) : k \in 0..MaxPieces, pad \in BOOLEAN }

\* the pieces of a tidy list: credentials without padding
PlainPieces == { Piece(k, FALSE) : k \in Credentials }

\* the strings of n pieces from pieceSet; of no piece: the unset variable
EnvValues(n, pieceSet) ==
    IF n = 0
    THEN { UndefinedEnv }
    ELSE { EnvString(pieces) : pieces \in [ 1..n -> pieceSet ] }

\* initializeKeyPools(): keyPools[providerName] = loadKeys(config.keyEnvVar)
\* for the environment e
loadPools(e) ==
    /\ env' = e
    /\ keyPools' = [ p \in ProviderNames |-> loadKeys(e[p]) ]
    /\ pc' = "pools"
    /\ lastOp' = [ NoOp EXCEPT !.op = "initializeKeyPools" ]
    /\ UNCHANGED << keyPointers, evicted, run, request, timed, pipeline, others >>

\* initializeKeyPools() in an environment whose three variables hold
\* MaxPieces pieces or fewer in all, taken from pieceSet
readEnvironment(pieceSet) ==
    /\ pc = "boot"
    /\ \E nc, no, nm \in 0..MaxPieces :
        /\ nc + no + nm <= MaxPieces
        /\ \E vc \in EnvValues(nc, pieceSet), vo \in EnvValues(no, pieceSet),
              vm \in EnvValues(nm, pieceSet) :
              loadPools([ cerebras |-> vc, openrouter |-> vo, moonshot |-> vm ])

\* any lists: padded and empty pieces, credentials listed twice
initializeKeyPoolsFromEnv == readEnvironment(AllPieces)

\* tidy lists, in which a credential may still be listed twice
initializeKeyPoolsTidy == readEnvironment(PlainPieces)

\* loadKeys on every environment value
LoadSpec == Init /\ [][initializeKeyPoolsFromEnv]_vars

\* the last n elements of seq
LastN(seq, n) ==
    IF Len(seq) <= n THEN seq ELSE SubSeq(seq, Len(seq) - n + 1, Len(seq))

\* getNextKey(provider, keyPools[provider]), as the adapters call it
callGetNextKey(provider) ==
    /\ pc = "pools"
    /\ LET got == getNextKey(keyPools[provider], keyPointers[provider]) IN
       /\ keyPointers' = [ keyPointers EXCEPT ![provider] = got.ptr ]
       /\ lastOp' = [ op |-> "getNextKey", provider |-> provider,
                      isNull |-> got.isNull, key |-> got.key ]
       /\ run' = IF got.isNull
                 THEN << >>
                 ELSE LastN(Append(IF lastOp.provider = provider
                                   THEN run ELSE << >>, got.key),
                            Len(keyPools[provider]))
    /\ UNCHANGED << keyPools, pc, env, evicted, request, timed, pipeline, others >>

\* removeKey(provider, keyToRemove)
callRemoveKey(provider, keyToRemove) ==
    /\ pc = "pools"
    /\ LET rem == removeKey(keyPools[provider], keyPointers[provider],
                            keyToRemove) IN
       /\ keyPools' = [ keyPools EXCEPT ![provider] = rem.keys ]
       /\ keyPointers' = [ keyPointers EXCEPT ![provider] = rem.ptr ]
       /\ evicted' = IF rem.keys # keyPools[provider]
                     THEN [ evicted EXCEPT ![provider] = @ \cup {keyToRemove} ]
                     ELSE evicted
    /\ lastOp' = [ op |-> "removeKey", provider |-> provider,
                   isNull |-> TRUE, key |-> keyToRemove ]
    /\ run' = << >>
    /\ UNCHANGED << pc, env, request, timed, pipeline, others >>

PoolNext ==
    \/ initializeKeyPoolsTidy
    \/ \E p \in ProviderNames : callGetNextKey(p)
    \/ \E p \in ProviderNames, k \in Credentials : callRemoveKey(p, k)

PoolSpec == Init /\ [][PoolNext]_vars

\* ------------------------------------------- the adapters with the clock
\* classifyWithAI's calls of the adapters, one after another, each adapter
\* followed through its model loop: getNextKey, waitForRateLimit with its
\* timer, the outbound call, the reply.  Which backend is called next and
\* how much time passes in between is left open.

\* an adapter written without the rate-limit call (as callHuggingFace is)
attemptPlanNoWait(got) == [ wait |-> FALSE, call |-> ~got.isNull ]

\* `if (!key) continue; try { await waitForRateLimit(...); ... fetch(...)`
attemptPlan(got) == [ wait |-> ~got.isNull, call |-> ~got.isNull ]

\* classifyWithAI calls the adapter of provider; `if (keys.length === 0)
\* return null`
callAdapter(provider) ==
    /\ pc = "idle"
    /\ IF Len(keyPools[AdapterUses[provider].pool]) = 0
       THEN UNCHANGED << pc, adapter >>
       ELSE pc' = "model" /\ adapter' = provider
    /\ modelIdx' = 1
    /\ slept' = FALSE
    /\ UNCHANGED << keyPools, keyPointers, key, sleepLeft, sinceLastRequest,
                    sinceCall, openWaits, request, direct, pipeline, others >>

\* the model loop goes on with the model at position next, or is over and
\* the adapter returns null
nextModel(next) ==
    IF next > Len(PROVIDERS[adapter].models)
    THEN pc' = "idle" /\ adapter' = "none" /\ modelIdx' = 1
    ELSE pc' = "model" /\ adapter' = adapter /\ modelIdx' = next

\* waitForRateLimit(clock) up to its await: the caller is suspended for
\* waitTime, or lastRequestTime[clock] = Date.now() is set at once
enterWait(clock) ==
    /\ openWaits' = Append(openWaits, clock)
    /\ IF waitTime(sinceLastRequest[clock], requiredDelay(clock)) > 0
       THEN /\ pc' = "sleeping"
            /\ sleepLeft' = waitTime(sinceLastRequest[clock],
                                      requiredDelay(clock))
            /\ slept' = TRUE
            /\ UNCHANGED sinceLastRequest
       ELSE /\ pc' = "stamped"
            /\ sleepLeft' = 0
            /\ slept' = FALSE
            /\ sinceLastRequest' = [ sinceLastRequest EXCEPT ![clock] = 0 ]

\* the start of one iteration for the key got from getNextKey
startAttempt(uses, got, plan) ==
    /\ keyPointers' = [ keyPointers EXCEPT ![uses.cursor] = got.ptr ]
    /\ key' = IF got.isNull THEN 0 ELSE got.key
    /\ IF plan.wait
       THEN enterWait(uses.clock) /\ UNCHANGED << adapter, modelIdx >>
       ELSE IF plan.call
       THEN /\ pc' = "stamped"
            /\ UNCHANGED << adapter, modelIdx, sleepLeft, slept,
                            sinceLastRequest, openWaits >>
       ELSE /\ nextModel(modelIdx + 1)
            /\ UNCHANGED << sleepLeft, slept, sinceLastRequest, openWaits >>

\* one iteration of the model loop up to its first suspension
beginAttempt ==
    /\ pc = "model"
    /\ startAttempt(AdapterUses[adapter],
                    getNextKey(keyPools[AdapterUses[adapter].pool],
                               keyPointers[AdapterUses[adapter].cursor]),
                    attemptPlan(getNextKey(keyPools[AdapterUses[adapter].pool],
                                           keyPointers[AdapterUses[adapter].cursor])))
    /\ UNCHANGED << keyPools, sinceCall, request, direct, pipeline, others >>

\* the timer of waitForRateLimit fires, not before it is due:
\* lastRequestTime[clock] = Date.now()
wake ==
    /\ pc = "sleeping"
    /\ sleepLeft = 0
    /\ sinceLastRequest' =
         [ sinceLastRequest EXCEPT ![AdapterUses[adapter].clock] = 0 ]
    /\ pc' = "stamped"
    /\ UNCHANGED << keyPools, keyPointers, adapter, modelIdx, key, sleepLeft,
                    sinceCall, openWaits, slept, request, direct, pipeline, others >>

\* fetch(config.endpoint, ...): the outbound call to the adapter's backend,
\* issued as soon as waitForRateLimit has returned
fetchCall ==
    /\ pc = "stamped"
    /\ pc' = "inflight"
    /\ sinceCall' = [ sinceCall EXCEPT ![adapter] = 0 ]
    /\ openWaits' = << >>
    /\ UNCHANGED << keyPools, keyPointers, adapter, modelIdx, key, sleepLeft,
                    sinceLastRequest, slept, request, direct, pipeline, others >>

\* the pool and cursor named evict after the reply: removeKey on a 429
evictAfter(evict, out) ==
    IF out.evict
    THEN removeKey(keyPools[evict], keyPointers[evict], key)
    ELSE [ keys |-> keyPools[evict], ptr |-> keyPointers[evict] ]

\* the reply is handled: a result ends the adapter, anything else leads to
\* the next model
handleReply(evict, out) ==
    /\ keyPools' = [ keyPools EXCEPT ![evict] = evictAfter(evict, out).keys ]
    /\ keyPointers' = [ keyPointers EXCEPT ![evict] = evictAfter(evict, out).ptr ]
    /\ IF ~out.ret.isNull
       THEN pc' = "idle" /\ adapter' = "none" /\ modelIdx' = 1
       ELSE nextModel(modelIdx + 1)

\* the backend answers the outbound call with resp
reply(resp) ==
    /\ pc = "inflight"
    /\ handleReply(AdapterUses[adapter].evict,
                   attempt(adapter, PROVIDERS[adapter].models[modelIdx], resp))
    /\ UNCHANGED << key, sleepLeft, sinceLastRequest, sinceCall, openWaits,
                    slept, request, direct, pipeline, others >>

\* a second passes: while the caller is between two adapter calls, asleep in
\* waitForRateLimit, or waiting for the backend's answer
tick ==
    /\ pc \in {"idle", "sleeping", "inflight"}
    /\ sinceLastRequest' =
         [ p \in ProviderNames |->
             Min(sinceLastRequest[p] + 1, requiredDelay(p)) ]
    /\ sinceCall' =
         [ p \in ProviderNames |-> Min(sinceCall[p] + 1, requiredDelay(p)) ]
    /\ sleepLeft' = Max(sleepLeft - 1, 0)
    /\ UNCHANGED << keyPools, keyPointers, pc, adapter, modelIdx, key,
                    openWaits, slept, request, direct, pipeline, others >>

RateNext ==
    \/ initializeKeyPools
    \/ \E p \in ProviderNames : callAdapter(p)
    \/ beginAttempt
    \/ wake
    \/ fetchCall
    \/ \E resp \in Responses : reply(resp)
    \/ tick

RateSpec == Init /\ [][RateNext]_vars

\* ============================================================ properties
Done == pc = "done"

\* a request with a non-empty name, classified under the default options
NamedDefault == validInput(orgData) /\ options = DefaultOptions

\* classifyWithAI returned an object that is not the degraded default
Live == returned = "object" /\ result.degraded = Bool(FALSE)

\* the request in progress (or just finished) reached the provider loop
InRequest == pc \in {"loop", "adapter"} \/ (Done /\ validInput(orgData))

AllPoolsEmpty == \A p \in ProviderNames : keyPools[p] = << >>

Last(seq) == seq[Len(seq)]

ClassificationFields ==
    { "isEcosystemOrg", "type", "category", "subcategory", "role_summary",
      "confidence", "provider", "model", "needsReview", "degraded" }

\* C1: a request with a non-empty name and default options ends with a
\* non-null classification object, never with null and never with a throw,
\* whatever the backends answered.
C1_AlwaysAnObject ==
    (Done /\ NamedDefault) =>
        /\ returned = "object"
        /\ (ClassificationFields \ {"type"}) \subseteq DOMAIN result

\* such a request finished after outbound calls went wrong
C1_Witness ==
    /\ Done /\ NamedDefault
    /\ returned = "object"
    /\ Len(callLog) >= 2

\* C2: when every adapter returned null the result is exactly the degraded
\* default and nothing is raised; and while all pools are empty no step
\* issues an outbound call or a rate-limit wait.
C2_AllNullGivesDefault ==
    /\ []((Done /\ NamedDefault /\ pi > Len(providerOrder)) =>
            /\ returned = "object"
            /\ result = createDefaultClassification(orgData)
            /\ attempts = providerOrder)
    /\ [][AllPoolsEmpty =>
            /\ callLog' \in {callLog, << >>}
            /\ waits' \in {waits, 0}]_vars

\* all three adapters were invoked on empty pools: default, no call, no wait
C2_Witness ==
    /\ Done /\ NamedDefault
    /\ AllPoolsEmpty
    /\ Len(attempts) = 3
    /\ callLog = << >>
    /\ waits = 0
    /\ result = createDefaultClassification(orgData)

\* C3: createDefaultClassification returns one and the same value for every
\* request: isEcosystemOrg=false, type='other', confidence=0.0, provider=null,
\* model=null, needsReview=true, degraded=true, and a role_summary that
\* contains 'pending manual classification'.
C3_DefaultIsFixed ==
    \A od \in OrgDatas \cup {orgData} :
        LET d == createDefaultClassification(od) IN
        /\ d.isEcosystemOrg = Bool(FALSE)
        /\ d.type = Str(<< "other" >>)
        /\ d.confidence = Num(0)
        /\ d.provider = JNull
        /\ d.model = JNull
        /\ d.needsReview = Bool(TRUE)
        /\ d.degraded = Bool(TRUE)
        /\ d.role_summary.t = "str"
        /\ includes(d.role_summary.s, << "pending", "manual", "classification" >>)
        /\ \A other \in OrgDatas : createDefaultClassification(other) = d

\* the default was built for a null request
C3_Witness ==
    /\ Done
    /\ orgData.isNull
    /\ returned = "object"
    /\ result = createDefaultClassification(orgData)

\* C4: in every returned object degraded is true iff provider and model are
\* null, and a live result carries the backend and the model that produced it.
C4_DegradedIffNoProvider ==
    (Done /\ returned = "object") =>
        /\ (result.degraded = Bool(TRUE)) <=>
               (result.provider = JNull /\ result.model = JNull)
        /\ result.degraded \in {Bool(TRUE), Bool(FALSE)}
        /\ Live =>
             /\ result.provider = Str(<< providerOrder[pi] >>)
             /\ result.model = Str(<< PROVIDERS[providerOrder[pi]].models[mi] >>)

\* a live moonshot result built from the reply that carried provider, model
\* and degraded keys of its own (the only reply whose confidence clamps to 1)
C4_Witness ==
    /\ Done /\ Live
    /\ result.confidence = Num(100)
    /\ result.provider = Str(<< "moonshot" >>)

\* C5: in every returned object needsReview is true when confidence < 0.7
\* and when degraded; a live result with confidence >= 0.7 has needsReview
\* false, whatever needsReview the reply carried.
C5_NeedsReview ==
    (Done /\ returned = "object") =>
        /\ result.confidence.n < ReviewThreshold => result.needsReview = Bool(TRUE)
        /\ result.degraded = Bool(TRUE) => result.needsReview = Bool(TRUE)
        /\ (Live /\ result.confidence.n >= ReviewThreshold) =>
               result.needsReview = Bool(FALSE)

\* the reply said needsReview: true with confidence 1.4; the result says false
C5_Witness ==
    /\ Done /\ Live
    /\ result.confidence = Num(100)
    /\ result.needsReview = Bool(FALSE)
    /\ result.provider = Str(<< "cerebras" >>)

\* C6: the confidence of every returned result lies in [0,1]; a reply with
\* confidence 1.4 is accepted with confidence 1.0 and one with -0.3 with 0.0.
C6_ConfidenceClamped ==
    /\ (Done /\ returned = "object") =>
           /\ result.confidence.t = "num"
           /\ result.confidence.n \in 0..100
    /\ Payloads[2].confidence = Num(140)
    /\ parseAIResponse(Text(<< O(2) >>)).isNull = FALSE
    /\ parseAIResponse(Text(<< O(2) >>)).obj.confidence = Num(100)
    /\ Payloads[3].confidence = Num(-30)
    /\ parseAIResponse(Text(<< O(3) >>)).isNull = FALSE
    /\ parseAIResponse(Text(<< O(3) >>)).obj.confidence = Num(0)

\* a live result whose reply reported a negative confidence
C6_Witness ==
    /\ Done /\ Live
    /\ result.confidence = Num(0)

\* C7: the returned object carries only keys of the classification-field
\* set, whatever keys the backend's JSON reply contains.
C7_OnlyClassificationFields ==
    (Done /\ returned = "object") =>
        DOMAIN result \subseteq ClassificationFields

\* C8: the attempt order is the primary picked by getNextProvider, then the
\* remaining backends in the order cerebras, openrouter, moonshot; adapters
\* are invoked in that order, each at most once per request.
C8_AttemptOrder ==
    InRequest =>
        LET NotPrimary(p) == p # primaryProvider IN
        /\ primaryProvider = providerRotation.currentProvider
        /\ providerOrder =
             << primaryProvider >> \o
             SelectSeq(<< "cerebras", "openrouter", "moonshot" >>, NotPrimary)
        /\ Len(attempts) <= Len(providerOrder)
        /\ attempts = SubSeq(providerOrder, 1, Len(attempts))
        /\ \A i, j \in 1..Len(attempts) : attempts[i] = attempts[j] => i = j

\* openrouter was primary and failed, cerebras was tried next, moonshot last
C8_Witness ==
    /\ Done /\ Live
    /\ primaryProvider = "openrouter"
    /\ attempts = << "openrouter", "cerebras", "moonshot" >>
    /\ result.provider = Str(<< "moonshot" >>)

\* C9: backends are invoked one after another, and the first non-null adapter
\* result ends the request: it is returned and no later backend is invoked.
C9_FirstResultWins ==
    /\ returned = "object" => Done
    /\ (Done /\ Live) =>
          /\ Len(attempts) = pi
          /\ result.provider = Str(<< Last(attempts) >>)
          /\ callLog # << >>
          /\ Last(callLog) = Last(attempts)
    /\ InRequest =>
          /\ \A i \in 1..Len(callLog) :
                \E a \in 1..Len(attempts) : attempts[a] = callLog[i]
          /\ \A i, j \in 1..Len(callLog) :
                i < j =>
                  \A a, b \in 1..Len(attempts) :
                     (attempts[a] = callLog[i] /\ attempts[b] = callLog[j]) => a <= b
          /\ pc = "adapter" => Last(attempts) = providerOrder[pi]

\* cerebras failed, openrouter answered on its second model, and moonshot,
\* which holds credentials, was never invoked
C9_Witness ==
    /\ Done /\ Live
    /\ attempts = << "cerebras", "openrouter" >>
    /\ callLog = << "cerebras", "openrouter", "openrouter" >>
    /\ keyPools["moonshot"] # << >>

\* C10: requestCount goes up by exactly one in the step in which the
\* primary's adapter produced the result; a fallback's result, a degraded
\* result and a failed attempt leave the rotation state alone, and the
\* getNextProvider call at the start of a request never increments it.
C10_CountOnlyPrimarySuccess ==
    [][ LET primaryReturn == /\ pc = "adapter"
                             /\ pc' = "done"
                             /\ returned' = "object"
                             /\ providerOrder[pi] = primaryProvider
            start == pc \in {"idle", "done"}
        IN  /\ primaryReturn =>
                providerRotation' =
                  [ providerRotation EXCEPT !.requestCount = @ + 1 ]
            /\ (~primaryReturn /\ ~start) =>
                providerRotation' = providerRotation
            /\ start =>
                providerRotation'.requestCount \in
                  {providerRotation.requestCount, 0} ]_vars

\* openrouter, primary after the rotation moved on, produced the result
C10_Witness ==
    /\ Done /\ Live
    /\ primaryProvider = "openrouter"
    /\ result.provider = Str(<< "openrouter" >>)
    /\ providerRotation.requestCount = 1

\* ------------------------------------------------------------ rotation
\* the step in which the primary's adapter produced the request's result
PrimaryReturn ==
    /\ pc = "adapter"
    /\ pc' = "done"
    /\ returned' = "object"
    /\ providerOrder[pi] = primaryProvider

\* the step that starts a request
RequestStart == pc \in {"idle", "done"} /\ pc' \in {"loop", "done"}

\* the backend after p in the cycle cerebras, openrouter, moonshot
Successor(p) ==
    CASE p = "cerebras"   -> "openrouter"
      [] p = "openrouter" -> "moonshot"
      [] OTHER            -> "cerebras"

\* C11 as claimed: requestCount is strictly less than
\* limits[currentProvider] in every reachable state.
C11_CountBelowLimit ==
    providerRotation.requestCount < limits[providerRotation.currentProvider]

\* C11 as amended: requestCount is at most limits[currentProvider] in every
\* reachable state and strictly less while a request is being attempted; it
\* equals the limit only from the primary's last counted result until the
\* next request, whose getNextProvider call resets it to 0 and moves
\* currentProvider on to the next backend of the cycle.
C11_CountWithinLimit ==
    /\ [](providerRotation.requestCount \in
             0..limits[providerRotation.currentProvider])
    /\ [](pc \in {"loop", "adapter"} =>
             providerRotation.requestCount <
               limits[providerRotation.currentProvider])
    /\ [][(RequestStart /\ pc' = "loop"
             /\ providerRotation.requestCount =
                  limits[providerRotation.currentProvider]) =>
            /\ providerRotation'.requestCount = 0
            /\ providerRotation'.currentProvider =
                 Successor(providerRotation.currentProvider)]_vars

\* moonshot's second counted result: the counter stands at the limit until
\* the next request starts
C11_Witness ==
    /\ Done /\ Live
    /\ providerRotation = [ currentProvider |-> "moonshot", requestCount |-> 2 ]
    /\ result.provider = Str(<< "moonshot" >>)

\* the backend the k-th successful primary call is due on: cerebras for 10,
\* openrouter for 10, moonshot for 2, and again
ScheduledBackend(k) ==
    LET r == (k - 1) % 22 IN
    IF r < 10 THEN "cerebras" ELSE IF r < 20 THEN "openrouter" ELSE "moonshot"

\* C12: with requests processed one at a time requestCount never exceeds
\* limits[currentProvider], and the k-th successful primary call is served
\* by cerebras for k = 1..10, openrouter for 11..20, moonshot for 21..22 and
\* cerebras again from 23 on: the 23rd is on the backend of the 1st.
C12_FixedCycle ==
    /\ [](providerRotation.requestCount <=
             limits[providerRotation.currentProvider])
    /\ [][(PrimaryReturn /\ served < MaxServed) =>
            /\ served' = served + 1
            /\ primaryProvider = ScheduledBackend(served')
            /\ result'.provider = Str(<< ScheduledBackend(served') >>)
            /\ served' = 23 =>
                  result'.provider = Str(<< ScheduledBackend(1) >>)]_vars
    /\ [][(pc \in {"loop", "adapter"} /\ served < MaxServed) =>
            primaryProvider = ScheduledBackend(served + 1)]_vars

\* the 23rd successful primary call, served by cerebras
C12_Witness ==
    /\ Done /\ Live
    /\ served = 23
    /\ primaryProvider = "cerebras"
    /\ result.provider = Str(<< "cerebras" >>)
    /\ providerRotation = [ currentProvider |-> "cerebras", requestCount |-> 1 ]

\* --------------------------------------------------------------- pools
PoolsLoaded == pc = "pools"

NoRepeat(seq) == \A i, j \in 1..Len(seq) : seq[i] = seq[j] => i = j

\* C13: after every getNextKey and every removeKey on a pool that was
\* initialised once, the pool's cursor is less than the pool's length, or 0
\* when the pool is empty.
C13_CursorInRange ==
    PoolsLoaded =>
        \A p \in ProviderNames :
            IF keyPools[p] = << >>
            THEN keyPointers[p] = 0
            ELSE keyPointers[p] \in 0..(Len(keyPools[p]) - 1)

\* a pool of three lost a credential while its cursor stood on the last one
C13_Witness ==
    /\ PoolsLoaded
    /\ lastOp.op = "removeKey"
    /\ Len(loadKeys(env[lastOp.provider])) = 3
    /\ Len(keyPools[lastOp.provider]) = 2
    /\ keyPointers[lastOp.provider] = 0
    /\ NoRepeat(loadKeys(env[lastOp.provider]))
    /\ lastOp.key \in evicted[lastOp.provider]

\* C14: once removeKey has evicted a credential from a pool, no later
\* getNextKey on that pool returns it, and no pool ever grows.
C14_EvictedNeverReturned ==
    /\ []((PoolsLoaded /\ lastOp.op = "getNextKey" /\ ~lastOp.isNull) =>
             lastOp.key \notin evicted[lastOp.provider])
    /\ [][PoolsLoaded =>
             \A p \in ProviderNames : Len(keyPools'[p]) <= Len(keyPools[p])]_vars

\* the credentials of a string in the order they are listed: trimmed, the
\* empty ones dropped
Listed(envValue) ==
    LET NonEmpty(piece) == piece.key # 0
        kept == SelectSeq(envValue.pieces, NonEmpty)
    IN  [ i \in 1..Len(kept) |-> kept[i].key ]

\* C15: loadKeys turns a comma-separated list into the sequence of its
\* trimmed, non-empty credentials in loading order, and that sequence holds
\* no credential twice.
C15_LoadKeysUnique ==
    PoolsLoaded =>
        \A p \in ProviderNames :
            /\ keyPools[p] = Listed(env[p])
            /\ \A i \in 1..Len(keyPools[p]) : keyPools[p][i] \in Credentials
            /\ NoRepeat(keyPools[p])

\* C16: getNextKey returns the credential at the cursor and advances the
\* cursor by one modulo the pool's length, and returns null on an empty
\* pool; n calls in a row on an unmodified pool of n return every entry of
\* the pool exactly once, in pool order (from the cursor on, wrapping).
C16_RoundRobin ==
    /\ [][(PoolsLoaded /\ lastOp'.op = "getNextKey") =>
            LET p == lastOp'.provider
                n == Len(keyPools[p])
            IN  /\ keyPools' = keyPools
                /\ IF n = 0
                   THEN lastOp'.isNull /\ keyPointers' = keyPointers
                   ELSE /\ ~lastOp'.isNull
                        /\ lastOp'.key = keyPools[p][keyPointers[p] + 1]
                        /\ keyPointers' = [ keyPointers EXCEPT ![p] =
                                              (keyPointers[p] + 1) % n ]]_vars
    /\ []((PoolsLoaded /\ lastOp.op = "getNextKey"
             /\ Len(run) = Len(keyPools[lastOp.provider])) =>
            LET pool == keyPools[lastOp.provider]
                n == Len(pool)
                at(i) == ((keyPointers[lastOp.provider] + i - 1) % n) + 1
            IN  /\ \A i \in 1..n : run[i] = pool[at(i)]
                /\ \A j \in 1..n : Cardinality({ i \in 1..n : at(i) = j }) = 1
                /\ NoRepeat(pool) => NoRepeat(run))

\* three calls on a pool of three different credentials, started at the
\* second one
C16_Witness ==
    /\ PoolsLoaded
    /\ lastOp.op = "getNextKey"
    /\ lastOp.provider = "openrouter"
    /\ keyPools["openrouter"] = << 3, 1, 2 >>
    /\ run = << 1, 2, 3 >>
    /\ keyPointers["openrouter"] = 1

\* ------------------------------------------------- adapters and clocks
\* a step of the running adapter (time passing changes no position)
AdapterStep == adapter # "none" /\ pc' # pc

\* the step in which the outbound call is issued
CallStep == pc = "stamped" /\ pc' = "inflight"

\* C17: getNextKey and removeKey applied to one backend's pool leave every
\* other backend's pool and cursor as they were, and an adapter reads and
\* writes only its own backend's pool, cursor and rate-limit clock: the key
\* it uses is the one at its own cursor in its own pool, the time it sleeps
\* is computed from its own clock, and its steps change no other backend's
\* pool, cursor or clock.
C17_OwnPoolCursorClock ==
    /\ [][adapter # "none" =>
            \A q \in ProviderNames \ {adapter} :
                /\ keyPools'[q] = keyPools[q]
                /\ keyPointers'[q] = keyPointers[q]
                /\ AdapterStep => sinceLastRequest'[q] = sinceLastRequest[q]]_vars
    /\ [][(pc = "model" /\ keyPools[adapter] # << >>) =>
            /\ key' = keyPools[adapter][keyPointers[adapter] + 1]
            /\ keyPointers'[adapter] =
                 (keyPointers[adapter] + 1) % Len(keyPools[adapter])
            /\ IF sinceLastRequest[adapter] < requiredDelay(adapter)
               THEN /\ pc' = "sleeping"
                    /\ sleepLeft' = requiredDelay(adapter)
                                       - sinceLastRequest[adapter]
               ELSE /\ pc' = "stamped"
                    /\ sinceLastRequest'[adapter] = 0]_vars
    /\ [][(pc = "inflight" /\ keyPools'[adapter] # keyPools[adapter]) =>
            /\ Len(keyPools'[adapter]) = Len(keyPools[adapter]) - 1
            /\ \A i \in 1..Len(keyPools'[adapter]) :
                   keyPools'[adapter][i] # key]_vars
    /\ [][(pc \in {"idle", "sleeping", "stamped"}) =>
            keyPools' = keyPools /\ keyPointers' = keyPointers]_vars

\* openrouter's adapter lost its only credential to a 429 while cerebras'
\* pool, cursor and clock stand where cerebras' own calls left them
C17_Witness ==
    /\ adapter = "openrouter"
    /\ pc = "model"
    /\ modelIdx = 2
    /\ keyPools["openrouter"] = << >>
    /\ keyPools["cerebras"] = << 1, 2 >>
    /\ keyPointers["cerebras"] = 1
    /\ sinceLastRequest["cerebras"] = 1
    /\ sinceLastRequest["openrouter"] = 0

\* C18: with requests processed one at a time, two consecutive outbound
\* calls to the same backend are at least its delayBetweenRequests apart
\* (cerebras 2000 ms, openrouter 3000 ms, moonshot 20000 ms): the caller is
\* suspended for the remainder of the delay; and waitForRateLimit records
\* the current time as the backend's last-call time whether it waited or not.
C18_DelayBetweenCalls ==
    /\ [][CallStep => sinceCall[adapter] >= requiredDelay(adapter)]_vars
    /\ [][(pc # "stamped" /\ pc' = "stamped") =>
            /\ pc \in {"model", "sleeping"}
            /\ pc = "sleeping" => sleepLeft = 0 /\ slept
            /\ pc = "model" =>
                  sinceLastRequest[adapter] >= requiredDelay(adapter)
            /\ sinceLastRequest'[adapter] = 0]_vars
    /\ [][(pc = "model" /\ pc' = "sleeping") =>
            sleepLeft' + sinceLastRequest[adapter] = requiredDelay(adapter)]_vars
    /\ [](/\ requiredDelay("cerebras") * 1000 = 2000
          /\ requiredDelay("openrouter") * 1000 = 3000
          /\ requiredDelay("moonshot") * 1000 = 20000)

\* moonshot's second model is called after the adapter slept
C18_Witness ==
    /\ pc = "inflight"
    /\ adapter = "moonshot"
    /\ modelIdx = 2
    /\ slept
    /\ sinceCall["moonshot"] = 0
    /\ sinceLastRequest["moonshot"] = 0

\* C19: every outbound call is immediately preceded by exactly one
\* waitForRateLimit call, made for the same backend; waitForRateLimit is
\* called once per attempt, and a call of it is followed by the outbound
\* call of that attempt and by nothing else.
C19_OneWaitPerCall ==
    /\ [][CallStep => openWaits = << adapter >>]_vars
    /\ [][openWaits' # openWaits =>
            \/ openWaits = << >> /\ Len(openWaits') = 1 /\ pc = "model"
            \/ openWaits' = << >> /\ CallStep]_vars
    /\ [](pc \in {"sleeping", "stamped"} <=> Len(openWaits) = 1)
    /\ [][pc = "sleeping" => pc' \in {"sleeping", "stamped"}]_vars
    /\ [][pc = "stamped" => pc' \in {"stamped", "inflight"}]_vars

\* openrouter's second model is called: two attempts, a wait before each
C19_Witness ==
    /\ pc = "inflight"
    /\ adapter = "openrouter"
    /\ modelIdx = 2
    /\ openWaits = << >>
    /\ sinceCall["openrouter"] = 0
    /\ slept

\* ------------------------------------------------------------ HTTP 429
\* C20: when a backend answers an attempt with HTTP 429 the adapter removes
\* exactly the credential used for the attempt from that backend's pool (the
\* pool is one shorter, the other pools are as they were) and goes on to its
\* next model or lets the request fall through to the next backend; the
\* request stays pending: no error and no result reaches the caller.
C20_QuotaEvictsUsedKey ==
    [][(pc = "adapter" /\ lastKind' = "s429") =>
         LET p == providerOrder[pi]
             used == keyPools[p][keyPointers[p] + 1]
             Other(k) == k # used
         IN  /\ Len(keyPools'[p]) = Len(keyPools[p]) - 1
             /\ keyPools'[p] = SelectSeq(keyPools[p], Other)
             /\ \A q \in ProviderNames \ {p} :
                    /\ keyPools'[q] = keyPools[q]
                    /\ keyPointers'[q] = keyPointers[q]
             /\ Last(callLog') = p
             /\ returned' = "pending"
             /\ \/ pc' = "adapter" /\ pi' = pi /\ mi' = mi + 1
                \/ pc' = "loop" /\ pi' = pi + 1
             /\ providerRotation' = providerRotation]_vars

\* the primary's only credential was answered 429 on its first use: the
\* pool is empty and the request is on its way to the next backend
C20_Witness ==
    /\ lastKind = "s429"
    /\ pc = "loop"
    /\ pi = 2
    /\ callLog = << primaryProvider >>
    /\ keyPools[primaryProvider] = << >>
    /\ returned = "pending"

\* -------------------------------------------------- invalid requests
\* C21: a null request and a request without a name end classifyWithAI in
\* its first step: no adapter is invoked, no outbound call and no rate-limit
\* wait is made, and the rotation state, the pools, the cursors and the
\* rate-limit clocks are what they were; under the default options the value
\* returned is the degraded default.
C21_InvalidInputTouchesNothing ==
    /\ [][(RequestStart /\ (orgData'.isNull \/ orgData'.name = "")) =>
            /\ pc' = "done"
            /\ attempts' = << >>
            /\ callLog' = << >>
            /\ waits' = 0
            /\ providerRotation' = providerRotation
            /\ keyPools' = keyPools
            /\ keyPointers' = keyPointers
            /\ sinceLastRequest' = sinceLastRequest
            /\ options' = DefaultOptions =>
                  /\ returned' = "object"
                  /\ result' = createDefaultClassification(orgData')]_vars
    /\ []((Done /\ (orgData.isNull \/ orgData.name = "")) =>
            attempts = << >> /\ callLog = << >> /\ waits = 0)

\* a request without a name was answered with the default while the primary
\* held a credential and the rotation had counted a result
C21_Witness ==
    /\ Done
    /\ ~orgData.isNull /\ orgData.name = ""
    /\ options = DefaultOptions
    /\ returned = "object"
    /\ result = createDefaultClassification(orgData)
    /\ attempts = << >>
    /\ providerRotation.requestCount = 1
    /\ keyPools[providerRotation.currentProvider] # << >>

\* ================================================== the pipeline (main)
\* index.js: every scraped item is classified (when its description is
\* long enough), built into a record, validated, and saved to storage or put
\* on the review queue.  lib/validator.js holds the taxonomy and the checks.

\* scraped items one run of main processes
MaxItems == 2

\* the value of a property that is not there
JUndefined == [t |-> "undefined", n |-> 0, s |-> << >>, b |-> FALSE]

\* JS truthiness of a value
TruthyValue(v) ==
    CASE v.t = "num"  -> v.n # 0
      [] v.t = "str"  -> v.s # << >>
      [] v.t = "bool" -> v.b
      [] OTHER        -> FALSE

\* o[k], undefined when the key is absent
Get(o, k) == IF Has(o, k) THEN o[k] ELSE JUndefined

\* a || b
OrElse(a, b) == IF TruthyValue(a) THEN a ELSE b

\* aiResult?.<k>: undefined when aiResult is null
Field(ai, k) ==
    IF ai.isNull THEN JUndefined ELSE Get(ai.obj, k)

\* category -> allowed subcategories, in the order of the source
TAXONOMY ==
    << [ category |-> << "NETWORKING", "&", "COMMUNITY" >>,
         subcategories |->
           << << "General", "Business", "Community", "&", "Membership" >>,
              << "Events", "&", "Awards" >>,
              << "Sector-Specific", "Networks" >> >> ],
       [ category |-> << "TALENT", "&", "EDUCATION" >>,
         subcategories |->
           << << "Universities", "&", "Research", "Institutions" >>,
              << "Training", "&", "Skills", "Development" >>,
              << "Entrepreneurship", "Education" >> >> ],
       [ category |-> << "FUNDING", "&", "FINANCE" >>,
         subcategories |->
           << << "Venture", "Capital", "&", "Private", "Equity" >>,
              << "Angel", "Syndicates", "&", "Networks" >>,
              << "Public", "&", "Development", "Banks" >>,
              << "Crowdfunding", "Platforms" >> >> ],
       [ category |-> << "SUPPORT", "INFRASTRUCTURE" >>,
         subcategories |->
           << << "Generalist", "Incubators", "&", "Accelerators" >>,
              << "Coworking", "&", "Workspace", "Providers" >>,
              << "Business", "Support", "Services" >> >> ],
       [ category |-> << "GROWTH", "&", "INNOVATION" >>,
         subcategories |->
           << << "Innovation", "Centres", "(Sector-Focused)" >>,
              << "Corporate", "Innovation", "Programs" >>,
              << "Technology", "Transfer", "Offices" >> >> ],
       [ category |-> << "POLICY", "&", "PUBLIC", "AGENCIES" >>,
         subcategories |->
           << << "National", "&", "Regional", "Enterprise", "Agencies" >>,
              << "Local", "Government", "Authorities" >>,
              << "Regulatory", "Bodies" >> >> ] >>

\* Object.keys(TAXONOMY)
TaxonomyKeys == { TAXONOMY[i].category : i \in 1..Len(TAXONOMY) }

\* TAXONOMY[category], the empty list for a name that is no key
TaxonomyOf(category) ==
    IF category \in TaxonomyKeys
    THEN (CHOOSE e \in { TAXONOMY[i] : i \in 1..Len(TAXONOMY) } :
              e.category = category).subcategories
    ELSE << >>

\* Object.values(TAXONOMY).flat()
allSubcategories ==
    UNION { { TAXONOMY[i].subcategories[j] :
                j \in 1..Len(TAXONOMY[i].subcategories) } :
            i \in 1..Len(TAXONOMY) }

\* A URL is held as the sequence of its parts: the scheme with its "://",
\* then labels and "." separators.  /^https?:\/\/.+\..+/
isValidURL(url) ==
    /\ TruthyValue(url)
    /\ url.t = "str"
    /\ url.s[1] \in { "http://", "https://" }
    /\ \E i \in 3..(Len(url.s) - 1) : url.s[i] = "."

\* the characters [A-Za-z0-9_] among those a handle is written with here
WordChars == { "a", "c", "e", "m", "_", "7" }

\* longest handle /^@?[A-Za-z0-9_]{1,15}$/ accepts
MaxHandleLength == 15

\* A handle is held as the sequence of its characters.
isValidTwitterHandle(handle) ==
    /\ TruthyValue(handle)
    /\ handle.t = "str"
    /\ LET body == IF handle.s[1] = "@" THEN Tail(handle.s) ELSE handle.s IN
       /\ Len(body) \in 1..MaxHandleLength
       /\ \A i \in 1..Len(body) : body[i] \in WordChars

isValidCategory(category) ==
    /\ TruthyValue(category)
    /\ category.t = "str"
    /\ category.s \in TaxonomyKeys

\* a subcategory is accepted when any category lists it
isValidSubcategory(subcategory) ==
    /\ TruthyValue(subcategory)
    /\ subcategory.t = "str"
    /\ subcategory.s \in allSubcategories


\* the error messages of validateOrganisation, by what they complain about
ErrName        == "name is required and must be a non-empty string"
ErrWebsite     == "website is required"
ErrWebsiteForm == "website has invalid format"
ErrCountry     == "country is required"
ErrTwitter     == "twitter has invalid format"
ErrNoCategory  == "categories must contain at least one category"
ErrCategory    == "categories contains invalid category"
ErrNoSubcat    == "subcategories must contain at least one subcategory"
ErrSubcategory == "subcategories contains invalid subcategory"
ErrNoRole      == "roles must contain at least one role"

\* one message for every category isValidCategory turns down
categoryErrors(categories) ==
    LET bad(category) == ~isValidCategory(category)
    IN  [ i \in 1..Len(SelectSeq(categories, bad)) |-> ErrCategory ]

\* one message for every subcategory isValidSubcategory turns down
subcategoryErrors(subcategories) ==
    LET bad(subcategory) == ~isValidSubcategory(subcategory)
    IN  [ i \in 1..Len(SelectSeq(subcategories, bad)) |-> ErrSubcategory ]

\* the errors validateOrganisation collects, in the order of its checks.
\* A whitespace-only text is not among the strings held here, so trim()
\* leaves every string as it is; categories, subcategories and roles are
\* arrays in every record built here.
validationErrors(org) ==
    (IF ~TruthyValue(org.name) \/ org.name.t # "str"
     THEN << ErrName >> ELSE << >>)
    \o (IF ~TruthyValue(org.website) THEN << ErrWebsite >>
        ELSE IF ~isValidURL(org.website) THEN << ErrWebsiteForm >>
        ELSE << >>)
    \o (IF ~TruthyValue(org.country) \/ org.country.t # "str"
        THEN << ErrCountry >> ELSE << >>)
    \o (IF org.twitter.t \notin { "null", "undefined" }
           /\ ~isValidTwitterHandle(org.twitter)
        THEN << ErrTwitter >> ELSE << >>)
    \o (IF Len(org.categories) = 0 THEN << ErrNoCategory >>
        ELSE categoryErrors(org.categories))
    \o (IF Len(org.subcategories) = 0 THEN << ErrNoSubcat >>
        ELSE subcategoryErrors(org.subcategories))
    \o (IF Len(org.roles) = 0 THEN << ErrNoRole >> ELSE << >>)

\* validateOrganisation(org): valid when no check complained
validateOrganisation(org) ==
    [ valid  |-> Len(validationErrors(org)) = 0,
      errors |-> validationErrors(org) ]


\* ------------------------------------------------ processOrganisation
\* a text of n characters
Filler(n) == [ i \in 1..n |-> "x" ]

\* main classifies an item whose description is longer than this
MinDescriptionLength == 10

NameAcme       == Str(<< "Acme", "Labs" >>)
WebsiteGood    == Str(<< "https://", "acme", ".", "ae" >>)
WebsiteNoHost  == Str(<< "acme", ".", "ae" >>)
TwitterGood    == Str(<< "@", "a", "c", "m", "e", "_", "7" >>)
TwitterSpaced  == Str(<< "@", "a", "c", " ", "m", "e" >>)
DefaultCountry == Str(<< "United", "Arab", "Emirates" >>)

\* the items handed to processOrganisation: a name (main drops items
\* without one), and a website, a handle and a description that may be
\* missing or unfit
Items ==
    { [ name        |-> NameAcme,
        website     |-> w,
        twitter     |-> tw,
        description |-> d ] :
        w  \in { JUndefined, WebsiteNoHost, WebsiteGood },
        tw \in { JUndefined, TwitterSpaced, TwitterGood },
        d  \in { JUndefined, Str(Filler(MinDescriptionLength)),
                 Str(Filler(MinDescriptionLength + 1)) } }

\* item.description && item.description.length > 10
longEnough(description) ==
    TruthyValue(description) /\ Len(description.s) > MinDescriptionLength

\* the request as classifyWithAI looks at it: an object, with or without
\* a name
asRequest(it) ==
    [ isNull |-> FALSE,
      name   |-> IF TruthyValue(Get(it, "name")) THEN "Acme Labs" ELSE "" ]

\* the value a call of classifyWithAI hands back (a throw hands back none)
returnedValue(r) ==
    IF r.returned = "object" THEN Obj(r.result) ELSE Null

\* the replies an adapter accepts on its first model
Accepted(provider) ==
    { resp \in Responses :
        ~attempt(provider, PROVIDERS[provider].models[1], resp).ret.isNull }

\* what classifyWithAI returns when cerebras' adapter produced the result
LiveResults ==
    { finishLive(attempt("cerebras", PROVIDERS["cerebras"].models[1],
                         resp).ret.obj) : resp \in Accepted("cerebras") }

\* what `await classifyWithAI(item)` may give main: a live result, or what
\* the default options make of the failure of every provider
ClassifyOutcomes(it) ==
    { [ path |-> "live", value |-> Obj(r) ] : r \in LiveResults }
      \cup { [ path  |-> "exhausted",
               value |-> returnedValue(degradeOrNull(DefaultOptions,
                                                     asRequest(it))) ] }

\* the first block of processOrganisation: the classification fields, with
\* their fallbacks
finalCategory(ai) ==
    OrElse(Field(ai, "category"), Str(<< "GROWTH", "&", "INNOVATION" >>))

finalSubcategory(ai) ==
    OrElse(Field(ai, "subcategory"), Str(<< "General", "Entity" >>))

finalRole(ai) ==
    OrElse(Field(ai, "role_summary"),
           Str(<< "Organisation", "pending", "classification" >>))

\* aiResult.needsReview || aiResult.confidence < 0.7, for a live result;
\* true without one
needsReviewOf(ai) ==
    IF ~ai.isNull /\ ~TruthyValue(Field(ai, "degraded"))
    THEN OrElse(Field(ai, "needsReview"),
                Bool(Field(ai, "confidence").t = "num"
                       /\ Field(ai, "confidence").n < ReviewThreshold))
    ELSE Bool(TRUE)

\* publishTier and trustScore by the type of an ecosystem organisation
tierOf(ai) ==
    IF ~ai.isNull /\ ~TruthyValue(Field(ai, "degraded"))
         /\ TruthyValue(Field(ai, "isEcosystemOrg"))
    THEN IF Field(ai, "type") \in { Str(<< "government" >>),
                                     Str(<< "incubator" >>) }
         THEN [ isActive |-> TRUE, publishTier |-> "A", trustScore |-> 90 ]
         ELSE IF Field(ai, "type") \in { Str(<< "startup" >>),
                                          Str(<< "vc" >>) }
         THEN [ isActive |-> TRUE, publishTier |-> "B", trustScore |-> 70 ]
         ELSE [ isActive |-> TRUE, publishTier |-> "C", trustScore |-> 10 ]
    ELSE [ isActive |-> FALSE, publishTier |-> "C", trustScore |-> 10 ]

\* trustReasons: what the classifier called the organisation
trustReasonsOf(ai) ==
    IF ai.isNull
    THEN << Str(<< "Manual/Scraper", "Entry" >>) >>
    ELSE << Field(ai, "type") >>

\* the status block of the document
statusOf(ai) ==
    [ isActive     |-> tierOf(ai).isActive,
      publishTier  |-> tierOf(ai).publishTier,
      trustScore   |-> tierOf(ai).trustScore,
      trustReasons |-> trustReasonsOf(ai),
      confidence   |-> OrElse(Field(ai, "confidence"), JNull),
      needsReview  |-> needsReviewOf(ai) ]

\* the record built for validation
orgToValidate(od, ai) ==
    [ name          |-> Get(od, "name"),
      website       |-> Get(od, "website"),
      country       |-> OrElse(Get(od, "country"), DefaultCountry),
      description   |-> OrElse(Get(od, "description"), JNull),
      twitter       |-> OrElse(Get(od, "twitter"), JNull),
      categories    |-> << finalCategory(ai) >>,
      subcategories |-> << finalSubcategory(ai) >>,
      roles         |-> << finalRole(ai) >> ]


\* the source block of a new document
sourceOf(od, ai) ==
    [ sourceName |-> "enhanced_scraper",
      sourceUrl  |-> Get(od, "website"),
      aiProvider |-> OrElse(Field(ai, "provider"), JNull),
      aiModel    |-> OrElse(Field(ai, "model"), JNull) ]

\* new Organisation({...}); lastSyncedAt and the copy of aiResult, for
\* which the schema has no path, are left out
newDoc(org, od, ai) ==
    [ name          |-> org.name,
      website       |-> org.website,
      country       |-> org.country,
      description   |-> org.description,
      twitter       |-> org.twitter,
      categories    |-> org.categories,
      subcategories |-> org.subcategories,
      roles         |-> org.roles,
      source        |-> sourceOf(od, ai),
      status        |-> statusOf(ai) ]

\* the fields processOrganisation overwrites in a document it found
updatedDoc(existing, org, od, ai) ==
    [ newDoc(org, od, ai) EXCEPT
        !.source = [ existing.source EXCEPT
                       !.aiProvider = sourceOf(od, ai).aiProvider,
                       !.aiModel    = sourceOf(od, ai).aiModel ] ]

\* Organisation.findOne({ $or: [{ website }, { name }] })
matching(od) ==
    { d \in storage : d.website = Get(od, "website")
                        \/ d.name = Get(od, "name") }

\* a queue that takes new entries at its head
addToReviewQueueAtHead(queue, org, errors) ==
    << [ organisation |-> org,
         errors       |-> errors,
         status       |-> "pending_review" ] >> \o queue

\* addToReviewQueue(org, validationErrors); the timestamp is left out
addToReviewQueue(queue, org, errors) ==
    Append(queue, [ organisation |-> org,
                    errors       |-> errors,
                    status       |-> "pending_review" ])

\* a check whose verdict is not looked at
rejectedNever(validationResult) == FALSE

\* if (!validationResult.valid)
rejected(validationResult) == ~validationResult.valid

\* what processOrganisation leaves behind when save() rejects
DuplicateKey == [ isNull |-> TRUE, obj |-> EmptyObj, error |-> "E11000" ]

\* existing.save() / newDoc.save(): the document is in storage and returned.
\* The schema declares name unique, so the save of a document whose name
\* another document carries is rejected by the index and nothing is written.
save(existing, doc) ==
    IF \E d \in storage \ existing : d.name = doc.name
    THEN /\ storage' = storage
         /\ savedDoc' = DuplicateKey
    ELSE /\ storage' = (storage \ existing) \cup { doc }
         /\ savedDoc' = Obj(doc)

\* processOrganisation after validateOrganisation(orgToValidate)
afterValidation(od, ai, org, validationResult) ==
    IF rejected(validationResult)
    THEN /\ reviewQueue' = addToReviewQueue(reviewQueue, org,
                                            validationResult.errors)
         /\ savedDoc' = Null
         /\ UNCHANGED storage
    ELSE /\ UNCHANGED reviewQueue
         /\ IF matching(od) # {}
            THEN \E existing \in matching(od) :
                    save({ existing }, updatedDoc(existing, org, od, ai))
            ELSE save({}, newDoc(org, od, ai))

\* processOrganisation(orgData, aiResult)
processOrganisation(od, ai) ==
    afterValidation(od, ai, orgToValidate(od, ai),
                    validateOrganisation(orgToValidate(od, ai)))

\* main up to its loop over the scraped items: clearReviewQueue().  The
\* credential pools play no part in what follows, where classifyWithAI
\* appears by the values it may return.
mainStart ==
    /\ pc = "boot"
    /\ pc' = "main"
    /\ reviewQueue' = << >>
    /\ UNCHANGED << keyPools, keyPointers, request, direct, timed, item,
                    aiResult, aiPath, storage, savedDoc, processed, others >>

\* the first half of main's loop body for the item it: aiResult is null for
\* a description that is too short, else what classifyWithAI(item) gave
classifyItem(it) ==
    /\ pc = "main"
    /\ processed < MaxItems
    /\ item' = it
    /\ IF longEnough(Get(it, "description"))
       THEN \E outcome \in ClassifyOutcomes(it) :
               /\ aiResult' = outcome.value
               /\ aiPath' = outcome.path
       ELSE /\ aiResult' = Null
            /\ aiPath' = "skipped"
    /\ pc' = "classified"
    /\ UNCHANGED << keyPools, keyPointers, request, direct, timed, storage,
                    reviewQueue, savedDoc, processed, others >>

\* the second half: processOrganisation(item, aiResult)
processItem ==
    /\ pc = "classified"
    /\ processOrganisation(item, aiResult)
    /\ processed' = processed + 1
    /\ pc' = "main"
    /\ UNCHANGED << keyPools, keyPointers, request, direct, timed, item,
                    aiResult, aiPath, others >>

PipeNext ==
    \/ mainStart
    \/ \E it \in Items : classifyItem(it)
    \/ processItem

PipeSpec == Init /\ [][PipeNext]_vars


\* ------------------------------------------------ pipeline properties
\* processOrganisation has returned for the item in hand
Processed == pc = "main" /\ processed > 0

\* the record processOrganisation built for it
Built == orgToValidate(item, aiResult)

\* the item's own fields are fit for storage: a name, a well-formed
\* website, and no handle or a well-formed one
FitItem ==
    /\ TruthyValue(Get(item, "name"))
    /\ isValidURL(Get(item, "website"))
    /\ ~TruthyValue(Get(item, "twitter"))
         \/ isValidTwitterHandle(Get(item, "twitter"))

\* C22: the degraded default's category is a key of TAXONOMY and its
\* subcategory is listed under that key, so that a record with the default
\* category and subcategory and a valid name, website, country and role
\* passes validateOrganisation.
C22_DefaultInTaxonomy ==
    LET default == createDefaultClassification(asRequest(item)) IN
    /\ default.category.s \in TaxonomyKeys
    /\ \E j \in 1..Len(TaxonomyOf(default.category.s)) :
          TaxonomyOf(default.category.s)[j] = default.subcategory.s
    /\ (/\ Processed
        /\ FitItem
        /\ Built.categories = << default.category >>
        /\ Built.subcategories = << default.subcategory >>) =>
          validateOrganisation(Built).valid


\* C23: an organisation with a valid name, website and description for
\* which every AI provider failed is still saved to storage by
\* processOrganisation, with needsReview = true.
C23_ExhaustedStillSaved ==
    (/\ Processed
     /\ aiPath = "exhausted"
     /\ FitItem
     /\ longEnough(Get(item, "description"))) =>
        /\ ~savedDoc.isNull
        /\ savedDoc.obj \in storage
        /\ savedDoc.obj.name = item.name
        /\ savedDoc.obj.status.needsReview = Bool(TRUE)


\* the step in which processOrganisation runs
ProcessStep == pc = "classified" /\ pc' = "main"

\* C24: processOrganisation creates or updates a document only for a record
\* validateOrganisation accepted, and returns that document; a record that
\* fails validation is appended to the review queue once, with its errors,
\* storage stays as it was and null is returned.  Storage changes in no
\* other step, and every document in it passes validateOrganisation.
C24_SavedOnlyIfValid ==
    /\ [][ProcessStep =>
            IF Len(validationErrors(Built)) = 0
            THEN /\ reviewQueue' = reviewQueue
                 /\ ~savedDoc'.isNull
                 /\ savedDoc'.obj \in storage'
                 /\ savedDoc'.obj.name = Built.name
                 /\ savedDoc'.obj.subcategories = Built.subcategories
                 /\ storage' \ { savedDoc'.obj } \subseteq storage
                 /\ Cardinality(storage') \in
                      { Cardinality(storage), Cardinality(storage) + 1 }
            ELSE /\ storage' = storage
                 /\ savedDoc'.isNull
                 /\ Len(reviewQueue') = Len(reviewQueue) + 1
                 /\ SubSeq(reviewQueue', 1, Len(reviewQueue)) = reviewQueue
                 /\ Last(reviewQueue').organisation = Built
                 /\ Last(reviewQueue').errors = validationErrors(Built)]_vars
    /\ [][storage' # storage => ProcessStep]_vars
    /\ [][(reviewQueue' # reviewQueue /\ pc # "boot") => ProcessStep]_vars
    /\ [](\A d \in storage : Len(validationErrors(d)) = 0)

\* the run saved one item and turned the next one down for its website
C24_Witness ==
    /\ Processed
    /\ processed = 2
    /\ Cardinality(storage) = 1
    /\ savedDoc.isNull
    /\ Len(reviewQueue) = 1
    /\ reviewQueue[1].organisation = Built
    /\ reviewQueue[1].errors = << ErrWebsiteForm >>


\* ------------------------------------------------------ result fields
\* the values the result's type may take
OrganisationTypes ==
    { "startup", "vc", "incubator", "government", "community", "other" }

\* C25: every object classifyWithAI returns has a type, and that type is
\* one of startup, vc, incubator, government, community, other.
C25_TypeInEnum ==
    (Done /\ returned = "object") =>
        /\ Has(result, "type")
        /\ result.type \in { Str(<< ty >>) : ty \in OrganisationTypes }


\* ------------------------------------------------------- exhaustion
\* the request in hand had a name and was answered with the degraded default
DegradedNamed ==
    /\ Done
    /\ ~orgData.isNull /\ orgData.name # ""
    /\ returned = "object"
    /\ result.degraded = Bool(TRUE)

\* outbound calls this request made to provider
Calls(provider) ==
    Cardinality({ i \in 1..Len(callLog) : callLog[i] = provider })

\* the distinct credentials a pool holds
Held(pool) == { pool[i] : i \in 1..Len(pool) }

\* C26 as claimed: a named request is answered with the degraded default
\* only after every backend was invoked, every configured model of every
\* backend was called, and every credential of every pool was used for one
\* of the request's calls (so that a backend was called at least as often
\* as its pool holds distinct credentials).
C26_EverythingTried ==
    DegradedNamed =>
        /\ attempts = providerOrder
        /\ \A p \in ProviderNames :
              /\ Calls(p) = Len(PROVIDERS[p].models)
              /\ Calls(p) >= Cardinality(Held(keyPools[p]))

\* C26 as amended: a named request is answered with the degraded default
\* only by the step after classifyWithAI's loop, when the adapters of all
\* three backends were invoked in the attempt order and each returned null:
\* its pool was empty, or each of its configured models was called once, in
\* order, with one credential of its pool, a model being skipped only when
\* the pool is empty.  A backend is called at most once per model, so a pool
\* holding more credentials than that is not tried in full.
C26_EveryAdapterFailed ==
    /\ [](DegradedNamed =>
            /\ attempts = providerOrder
            /\ Len(attempts) = Cardinality(ProviderNames)
            /\ \A p \in ProviderNames :
                  /\ \E i \in 1..Len(attempts) : attempts[i] = p
                  /\ Calls(p) = Len(PROVIDERS[p].models) \/ keyPools[p] = << >>
                  /\ Calls(p) <= Len(PROVIDERS[p].models))
    /\ [][(returned = "pending" /\ returned' = "object"
             /\ result'.degraded = Bool(TRUE) /\ orgData'.name # "") =>
            /\ pc = "loop"
            /\ pi > Len(providerOrder)
            /\ UNCHANGED << keyPools, keyPointers, callLog, attempts >>]_vars
    /\ [][(pc = "adapter" /\ callLog' = callLog) =>
            keyPools[providerOrder[pi]] = << >>]_vars
    /\ [][(pc = "adapter" /\ callLog' # callLog) =>
            /\ callLog' = Append(callLog, providerOrder[pi])
            /\ Calls(providerOrder[pi]) = mi - 1]_vars

\* every backend failed although cerebras still holds a credential that was
\* not tried; openrouter lost its only credential and skipped its second
\* model; moonshot had none
C26_Witness ==
    /\ DegradedNamed
    /\ keyPools["cerebras"] = << 1, 2 >>
    /\ keyPointers["cerebras"] = 1
    /\ keyPools["openrouter"] = << >>
    /\ keyPools["moonshot"] = << >>
    /\ callLog = << "cerebras", "openrouter" >>


\* ------------------------------------------------- failed attempts
\* the answers that are failures but no quota signal: a network error, a
\* non-2xx status other than 429, a malformed body or a body without a
\* message ("failed"), and a reply parseAIResponse turns down
NonQuotaFailures == { "failed", "rejected" }

\* the adapter goes on: to its next model, or back to classifyWithAI's loop
\* after its last one
GoesOn ==
    IF mi < Len(PROVIDERS[providerOrder[pi]].models)
    THEN pc' = "adapter" /\ pi' = pi /\ mi' = mi + 1
    ELSE pc' = "loop" /\ pi' = pi + 1

\* C27: an attempt that fails without a quota signal (network error, non-2xx
\* status other than 429, malformed body, reply rejected by parseAIResponse)
\* leaves every credential pool as it was and makes the adapter go on to its
\* next model; the request stays pending, nothing reaches the caller.
C27_FailureKeepsPool ==
    [][(pc = "adapter" /\ lastKind' \in NonQuotaFailures) =>
         /\ keyPools' = keyPools
         /\ callLog' = Append(callLog, providerOrder[pi])
         /\ GoesOn
         /\ returned' = "pending"
         /\ result' = result
         /\ providerRotation' = providerRotation]_vars

\* openrouter's first model sent a reply parseAIResponse turned down: its
\* only credential is still in the pool and the second model is next
C27_Witness ==
    /\ pc = "adapter"
    /\ providerOrder[pi] = "openrouter"
    /\ mi = 2
    /\ lastKind = "rejected"
    /\ keyPools["openrouter"] = << 1 >>
    /\ callLog = << "openrouter" >>
    /\ returned = "pending"


\* ------------------------------------------------------ model order
\* the models configured for the backend whose adapter is running
ModelsHere == PROVIDERS[providerOrder[pi]].models

\* C28: an adapter goes through its configured models in their order, one
\* step per model; the first model whose reply parseAIResponse accepts ends
\* it with a result tagged with the backend's name and that model, and no
\* later model is tried; it returns null only after its last model, or at
\* once when its pool is empty and no model can be tried; and no step of an
\* adapter raises an error.
C28_ModelsInOrder ==
    /\ [][(pc = "loop" /\ pc' = "adapter") => mi' = 1]_vars
    /\ [](pc = "adapter" =>
            /\ mi \in 1..Len(ModelsHere)
            /\ Calls(providerOrder[pi]) <= mi - 1)
    /\ [][pc = "adapter" =>
            /\ lastKind' = "message" <=> returned' = "object"
            /\ lastKind' = "message" =>
                  /\ pc' = "done"
                  /\ pi' = pi /\ mi' = mi
                  /\ result'.provider = Str(<< providerOrder[pi] >>)
                  /\ result'.model = Str(<< ModelsHere[mi] >>)
                  /\ callLog' = Append(callLog, providerOrder[pi])
            /\ lastKind' # "message" =>
                  /\ returned' = "pending"
                  /\ GoesOn
            /\ pc' = "loop" => mi = Len(ModelsHere)
            /\ returned' # "threw"]_vars
    /\ [][(pc = "loop" /\ pc' = "loop") =>
            /\ keyPools[providerOrder[pi]] = << >>
            /\ pi' = pi + 1
            /\ callLog' = callLog
            /\ returned' = "pending"]_vars

\* moonshot, the last backend of the order, answered on its second model
\* after its first was turned down with a 500
C28_Witness ==
    /\ Done /\ Live
    /\ providerOrder[pi] = "moonshot"
    /\ mi = 2
    /\ result.provider = Str(<< "moonshot" >>)
    /\ result.model = Str(<< "moonshot-v1-32k" >>)
    /\ Calls("moonshot") = 2
    /\ lastKind = "message"


\* ------------------------------------------------- required fields
\* o carries a non-empty string under k
NonEmptyString(o, k) == Has(o, k) /\ o[k].t = "str" /\ o[k].s # << >>

\* o has a boolean isEcosystemOrg, non-empty strings category, subcategory
\* and role_summary, and a numeric confidence
Complete(o) ==
    /\ Has(o, "isEcosystemOrg") /\ o.isEcosystemOrg.t = "bool"
    /\ NonEmptyString(o, "category")
    /\ NonEmptyString(o, "subcategory")
    /\ NonEmptyString(o, "role_summary")
    /\ Has(o, "confidence") /\ o.confidence.t = "num"

\* the JSON value found in the text t of a reply
ParsedReply(t) == JSONparse(objectMatch(jsonMatch(t)))

\* the reply t parses to an object that has every required field
CompleteReply(t) ==
    /\ ~ParsedReply(t).threw
    /\ ParsedReply(t).isObj
    /\ Complete(ParsedReply(t).obj)

\* o and the result agree on the fields parseAIResponse checks, the
\* confidence brought into [0,1]
SameFields(o, res) ==
    /\ \A k \in { "isEcosystemOrg", "category", "subcategory", "role_summary" } :
          res[k] = o[k]
    /\ res.confidence = Num(Max(0, Min(100, o.confidence.n)))

\* the replies that parse to an object with every required field, and
\* those objects
CompleteTexts == { t \in ReplyTexts : CompleteReply(t) }
CompleteObjects == { ParsedReply(t).obj : t \in CompleteTexts }

\* parseAIResponse gives null for an incomplete or unparsable reply and for
\* a reply without text, and the parsed object for a complete one
NullUnlessComplete ==
    /\ \A t \in ReplyTexts \ CompleteTexts : parseAIResponse(Text(t)) = Null
    /\ \A t \in CompleteTexts :
          /\ ~parseAIResponse(Text(t)).isNull
          /\ DOMAIN parseAIResponse(Text(t)).obj = DOMAIN ParsedReply(t).obj
          /\ \A k \in DOMAIN ParsedReply(t).obj \ { "confidence" } :
                parseAIResponse(Text(t)).obj[k] = ParsedReply(t).obj[k]
          /\ SameFields(ParsedReply(t).obj, parseAIResponse(Text(t)).obj)
    /\ parseAIResponse(Undefined) = Null

\* C29: parseAIResponse returns null for every reply whose parsed value
\* lacks a boolean isEcosystemOrg, a non-empty string category, subcategory
\* or role_summary, or a numeric confidence, and for every text that does not
\* parse; otherwise it returns the parsed object, its confidence brought into
\* [0,1]; it never throws: an adapter step whose reply is turned down leaves
\* the request pending, and a step whose reply is accepted ends it with the
\* fields of a complete reply.
C29_NullUnlessComplete ==
    /\ NullUnlessComplete
    /\ [][pc = "adapter" =>
            /\ lastKind' = "rejected" => returned' = "pending" /\ GoesOn
            /\ lastKind' = "message" =>
                 /\ returned' = "object"
                 /\ \E o \in CompleteObjects : SameFields(o, result')]_vars

\* moonshot's first model sent a reply parseAIResponse turned down; the
\* request went on to its second model, whose reply was accepted with the
\* confidence 0.69 it carried
C29_Witness ==
    /\ Done /\ Live
    /\ providerOrder[pi] = "moonshot"
    /\ mi = 2
    /\ Calls("moonshot") = 2
    /\ Complete(result)
    /\ result.confidence = Num(69)


\* ------------------------------------------- degradation by default
\* the caller did not supply enableGracefulDegradation: the options argument
\* was omitted, or it is an object without that key
NotSupplied ==
    \/ options.kind = "omitted"
    \/ options.kind = "object" /\ ~options.hasKey

\* C30: a request whose caller did not supply enableGracefulDegradation ends
\* with an object (the degraded default on invalid input and when every
\* backend failed), and a request ends with null only when the caller passed
\* enableGracefulDegradation: false.
C30_DegradationByDefault ==
    Done =>
        /\ NotSupplied =>
             /\ returned = "object"
             /\ ~Live => result = createDefaultClassification(orgData)
        /\ returned = "null" =>
             /\ options.kind = "object"
             /\ options.hasKey
             /\ ~options.value



\* ================================================ retryPageGoto
\* calls of retryPageGoto a run makes
MaxLoads == 2

maxAttempts == 3

\* a backoff that starts at two seconds
delaysLate == << 2000, 4000, 8000 >>

\* const delays = [1000, 2000, 4000]
delays == << 1000, 2000, 4000 >>

TargetUrls == { "https://a.example", "https://b.example" }

\* what `await page.goto(url, options)` may do: throw (timeout, network
\* error), resolve to null, or resolve to a response with a status
GotoThrew      == [ kind |-> "threw",    status |-> 0 ]
GotoNull       == [ kind |-> "null",     status |-> 0 ]
GotoStatus(st) == [ kind |-> "response", status |-> st ]
GotoOutcomes ==
    { GotoThrew, GotoNull } \cup { GotoStatus(st) : st \in { 200, 404, 403, 429, 503 } }

NoResponse      == [ isNull |-> TRUE,  status |-> 0 ]
Response(st)    == [ isNull |-> FALSE, status |-> st ]

\* the statuses retryPageGoto gives up on, with the text it records
statusTextOf(st) ==
    CASE st = 403 -> "Forbidden"
      [] st = 429 -> "Too Many Requests"
      [] st = 503 -> "Service Unavailable"
      [] OTHER    -> "none"

\* an ErrorSummary that files every HTTP error twice
addHttpErrorTwice(errors, u, st) ==
    IF withSummary
    THEN errors \o << [ url |-> u, statusCode |-> st,
                        statusText |-> statusTextOf(st) ],
                      [ url |-> u, statusCode |-> st,
                        statusText |-> statusTextOf(st) ] >>
    ELSE errors

\* if (errorSummary) errorSummary.addHttpError(url, status, statusText)
addHttpError(errors, u, st) ==
    IF withSummary
    THEN Append(errors, [ url |-> u, statusCode |-> st,
                          statusText |-> statusTextOf(st) ])
    ELSE errors

\* if (errorSummary) errorSummary.addPageLoadError(url, message)
addPageLoadError(errors, u) ==
    IF withSummary
    THEN Append(errors, [ url |-> u, reason |-> "Failed after 3 attempts" ])
    ELSE errors

\* retryPageGoto(page, u, options, errorSummary) up to its first page.goto
retryPageGoto(u, summary) ==
    /\ gotoPc \in { "idle", "returned" }
    /\ loads < MaxLoads
    /\ gotoUrl' = u
    /\ withSummary' = summary
    /\ attemptNo' = 1
    /\ gotoLog' = << >>
    /\ sleeps' = << >>
    /\ gotoPc' = "goto"
    /\ UNCHANGED << response, pageLoadErrors, httpErrors, loads, outsidePaging >>

\* return value: leaves the function
returnFromGoto(value) ==
    /\ response' = value
    /\ gotoPc' = "returned"
    /\ loads' = loads + 1
    /\ UNCHANGED attemptNo

\* an attempt whose page.goto resolved
onResolved(outcome) ==
    IF outcome.kind = "response" /\ outcome.status \in { 403, 429, 503 }
    THEN /\ httpErrors' = addHttpError(httpErrors, gotoUrl, outcome.status)
         /\ returnFromGoto(NoResponse)
         /\ UNCHANGED pageLoadErrors
    ELSE /\ returnFromGoto(IF outcome.kind = "null"
                           THEN NoResponse
                           ELSE Response(outcome.status))
         /\ UNCHANGED << pageLoadErrors, httpErrors >>

\* the catch block: a retry after a delay, or the end after the last attempt
onThrown ==
    IF attemptNo < maxAttempts
    THEN /\ gotoPc' = "waiting"
         /\ UNCHANGED << attemptNo, response, pageLoadErrors, httpErrors, loads >>
    ELSE /\ pageLoadErrors' = addPageLoadError(pageLoadErrors, gotoUrl)
         /\ returnFromGoto(NoResponse)
         /\ UNCHANGED httpErrors

\* one attempt: page.goto ends as outcome says and the attempt handles it
gotoAttempt(outcome) ==
    /\ gotoPc = "goto"
    /\ gotoLog' = Append(gotoLog, outcome)
    /\ IF outcome.kind = "threw" THEN onThrown ELSE onResolved(outcome)
    /\ UNCHANGED << gotoUrl, withSummary, sleeps, outsidePaging >>

\* the timer of `await new Promise(resolve => setTimeout(resolve, delay))`
\* fires and the loop goes to its next attempt
retryAfterDelay ==
    /\ gotoPc = "waiting"
    /\ sleeps' = Append(sleeps, delays[attemptNo])
    /\ attemptNo' = attemptNo + 1
    /\ gotoPc' = "goto"
    /\ UNCHANGED << gotoUrl, withSummary, response, gotoLog, pageLoadErrors,
                    httpErrors, loads, outsidePaging >>

RetryNext ==
    \/ \E u \in TargetUrls, summary \in BOOLEAN : retryPageGoto(u, summary)
    \/ \E outcome \in GotoOutcomes : gotoAttempt(outcome)
    \/ retryAfterDelay

RetrySpec == Init /\ [][RetryNext]_vars


\* ------------------------------------------------ retry properties
\* how the latest page.goto of the call in hand ended
LastGoto == gotoLog[Len(gotoLog)]

HttpErrorStatuses == { 403, 429, 503 }

\* the latest page.goto resolved to a response retryPageGoto gives up on
GaveUpOnStatus ==
    /\ gotoLog # << >>
    /\ LastGoto.kind = "response"
    /\ LastGoto.status \in HttpErrorStatuses

\* what the latest page.goto resolved to
Resolved ==
    IF LastGoto.kind = "null" THEN NoResponse ELSE Response(LastGoto.status)

\* every attempt before the latest one threw, and the call waited 1000 ms
\* before its 2nd attempt and 2000 ms before its 3rd
BackedOff ==
    /\ Len(gotoLog) \in 1..3
    /\ \A i \in 1..(Len(gotoLog) - 1) : gotoLog[i].kind = "threw"
    /\ sleeps = SubSeq(<< 1000, 2000 >>, 1, Len(gotoLog) - 1)

\* the step ends a call whose three attempts all threw
ThirdThrow ==
    /\ gotoPc = "goto"
    /\ gotoPc' = "returned"
    /\ gotoLog'[Len(gotoLog')].kind = "threw"

\* one page-load error for the url is added to the ErrorSummary the call was
\* given; without one nothing is recorded
OnePageLoadError ==
    /\ withSummary =>
          /\ Len(pageLoadErrors') = Len(pageLoadErrors) + 1
          /\ SubSeq(pageLoadErrors', 1, Len(pageLoadErrors)) = pageLoadErrors
          /\ pageLoadErrors'[Len(pageLoadErrors')].url = gotoUrl
    /\ ~withSummary => pageLoadErrors' = pageLoadErrors
    /\ httpErrors' = httpErrors

C32_HttpErrorEndsCall ==
    /\ [][(gotoPc = "goto" /\ gotoLog'[Len(gotoLog')].kind = "response"
             /\ gotoLog'[Len(gotoLog')].status \in HttpErrorStatuses) =>
            /\ gotoPc' = "returned"
            /\ response' = NoResponse
            /\ loads' = loads + 1
            /\ pageLoadErrors' = pageLoadErrors
            /\ withSummary =>
                  /\ Len(httpErrors') = Len(httpErrors) + 1
                  /\ SubSeq(httpErrors', 1, Len(httpErrors)) = httpErrors
                  /\ httpErrors'[Len(httpErrors')].url = gotoUrl
                  /\ httpErrors'[Len(httpErrors')].statusCode =
                        gotoLog'[Len(gotoLog')].status
            /\ ~withSummary => httpErrors' = httpErrors]_vars
    /\ [](gotoPc \in { "goto", "waiting" } =>
            \A i \in 1..Len(gotoLog) : gotoLog[i].kind = "threw")
    /\ [][httpErrors' # httpErrors =>
            (gotoPc = "goto" /\ gotoLog'[Len(gotoLog')].status \in HttpErrorStatuses)]_vars

\* the first call met a 429 on its second attempt and recorded it; the
\* caller's next call, for the other url, is at its first page.goto
C32_Witness ==
    /\ gotoPc = "goto"
    /\ loads = 1
    /\ gotoLog = << >>
    /\ Len(httpErrors) = 1
    /\ httpErrors[1].statusCode = 429
    /\ httpErrors[1].url # gotoUrl
    /\ pageLoadErrors = << >>



\* ================================================ the review queue
\* entries the review queue takes before it is cleared
MaxQueue == 3

\* organisations handed to the validator's functions: built from items with
\* a missing, a malformed and a well-formed website, without a classification
QueueOrgs ==
    { orgToValidate([ name |-> NameAcme, website |-> w ], Null) :
        w \in { JUndefined, WebsiteNoHost, WebsiteGood } }

\* the error lists addToReviewQueue is called with for org: those of
\* validateOrganisation, or a list of the caller's own
QueueErrors(org) == { validateOrganisation(org).errors, << ErrName >> }

\* addToReviewQueue(org, validationErrors)
callAddToReviewQueue(org, errors) ==
    /\ Len(reviewQueue) < MaxQueue
    /\ reviewQueue' = addToReviewQueue(reviewQueue, org, errors)
    /\ added' = Append(added, [ org |-> org, errors |-> errors ])
    /\ UNCHANGED << validation, outsideQueue >>

\* clearReviewQueue(): reviewQueue = []
callClearReviewQueue ==
    /\ reviewQueue' = << >>
    /\ added' = << >>
    /\ UNCHANGED << validation, outsideQueue >>

\* validateOrganisation(org): returns its verdict and touches nothing else
callValidateOrganisation(org) ==
    /\ validation' = validateOrganisation(org)
    /\ UNCHANGED << reviewQueue, added, outsideQueue >>

QueueNext ==
    \/ \E org \in QueueOrgs : \E errors \in QueueErrors(org) :
          callAddToReviewQueue(org, errors)
    \/ callClearReviewQueue
    \/ \E org \in QueueOrgs : callValidateOrganisation(org)

QueueSpec == Init /\ [][QueueNext]_vars

\* C33: the review queue holds exactly the items added by addToReviewQueue
\* since the last clearReviewQueue, in insertion order, each with status
\* 'pending_review' and the organisation and errors it was added with, and a
\* call of validateOrganisation leaves the queue as it was.
C33_QueueHoldsAdded ==
    /\ [](/\ Len(reviewQueue) = Len(added)
          /\ \A i \in 1..Len(added) :
                /\ reviewQueue[i].organisation = added[i].org
                /\ reviewQueue[i].errors = added[i].errors
                /\ reviewQueue[i].status = "pending_review")
    /\ [][validation' # validation => reviewQueue' = reviewQueue]_vars

\* after a clear, two organisations were added, the first with the errors
\* validateOrganisation found and the second with the caller's own; the
\* last validateOrganisation call turned down a record that is not queued
C33_Witness ==
    /\ Len(reviewQueue) = 2
    /\ reviewQueue[1].organisation # reviewQueue[2].organisation
    /\ reviewQueue[1].errors = validateOrganisation(reviewQueue[1].organisation).errors
    /\ Len(reviewQueue[1].errors) > 1
    /\ reviewQueue[2].errors = << ErrName >>
    /\ ~validation.valid
    /\ \A i \in 1..2 : validateOrganisation(reviewQueue[i].organisation) # validation



\* ================================================ deduplication
\* calls of processOrganisation a run makes
MaxRecords == 3

NameOther    == Str(<< "Beta", "Hub" >>)
WebsiteOther == Str(<< "https://", "beta", ".", "ae" >>)

\* scraped items with one of two names and one of two well-formed websites
StoreItems ==
    { [ name |-> n, website |-> w, description |-> Str(Filler(MinDescriptionLength + 1)) ] :
        n \in { NameAcme, NameOther }, w \in { WebsiteGood, WebsiteOther } }

\* the aiResult main hands over with them: a live result or null
StoreResults == { Obj(r) : r \in LiveResults } \cup { Null }

\* await processOrganisation(it, ai)
callProcessOrganisation(it, ai) ==
    /\ processed < MaxRecords
    /\ item' = it
    /\ aiResult' = ai
    /\ processOrganisation(it, ai)
    /\ processed' = processed + 1
    /\ UNCHANGED outsideStore

StoreNext ==
    \E it \in StoreItems, ai \in StoreResults : callProcessOrganisation(it, ai)

StoreSpec == Init /\ [][StoreNext]_vars

\* C34: storage holds no two organisation documents with the same website
\* and no two with the same name.
C34_NoDuplicates ==
    \A d1 \in storage : \A d2 \in storage \ { d1 } :
        /\ d1.website # d2.website
        /\ d1.name # d2.name



\* ------------------------------------------- eviction and the cursor
\* no credential is listed twice in keys
Distinct(keys) ==
    \A i \in 1..Len(keys) : \A j \in 1..Len(keys) : keys[i] = keys[j] => i = j

\* the step is removeKey on the credential the getNextKey call just before
\* it returned, on a pool that holds other credentials as well
EvictsJustReturned ==
    /\ pc = "pools"
    /\ lastOp.op = "getNextKey"
    /\ ~lastOp.isNull
    /\ lastOp'.op = "removeKey"
    /\ lastOp'.provider = lastOp.provider
    /\ lastOp'.key = lastOp.key
    /\ Distinct(keyPools[lastOp.provider])
    /\ Len(keyPools[lastOp.provider]) > 1

\* C35: after removeKey evicts the credential getNextKey has just returned,
\* the following getNextKey on that pool returns the credential that came
\* directly after the evicted one in pool order (the one the cursor stood at
\* when removeKey was called, the pool wrapping around at its end).
C35_NoSkipAfterEviction ==
    [][EvictsJustReturned =>
         getNextKey(keyPools'[lastOp.provider],
                    keyPointers'[lastOp.provider]).key
           = keyPools[lastOp.provider][keyPointers[lastOp.provider] + 1]]_vars



\* ================================================ concurrent requests
\* Several classifyWithAI calls are in flight at once (Promise.all over the
\* items, say).  JavaScript runs each of them without interruption from one
\* await to the next: a request is one step from its entry to the await of
\* its first adapter, and one step from an adapter's return to the await of
\* the next adapter or to its own return.  An adapter is taken as a whole:
\* it returns a result or null, after any time.

\* classifyWithAI(orgData) in lane r up to `await providerFunctions[...]`:
\* getNextProvider() picks the primary
flightStart(r) ==
    /\ inFlight[r].stage = "idle"
    /\ providerRotation' = getNextProvider(providerRotation)
    /\ inFlight' = [ inFlight EXCEPT ![r] =
                       [ stage   |-> "flight",
                         primary |-> getNextProvider(providerRotation).currentProvider,
                         at      |-> 1 ] ]
    /\ UNCHANGED outsideFlights

\* the adapter lane r awaits returns a result: incrementProviderCount() when
\* it is the primary's, and the request returns
flightResult(r) ==
    /\ inFlight[r].stage = "flight"
    /\ providerRotation' =
         IF providerOrderOf(inFlight[r].primary)[inFlight[r].at] = inFlight[r].primary
         THEN incrementProviderCount(providerRotation)
         ELSE providerRotation
    /\ inFlight' = [ inFlight EXCEPT ![r].stage = "idle" ]
    /\ UNCHANGED outsideFlights

\* the adapter lane r awaits returns null or throws: the next backend of
\* providerOrder is called, or the request returns after the last one
flightFailure(r) ==
    /\ inFlight[r].stage = "flight"
    /\ inFlight' =
         IF inFlight[r].at < Len(providerOrderOf(inFlight[r].primary))
         THEN [ inFlight EXCEPT ![r].at = @ + 1 ]
         ELSE [ inFlight EXCEPT ![r].stage = "idle" ]
    /\ UNCHANGED << providerRotation, outsideFlights >>

FlightNext ==
    \/ \E r \in Lanes : flightStart(r)
    \/ \E r \in Lanes : flightResult(r)
    \/ \E r \in Lanes : flightFailure(r)

FlightSpec == Init /\ [][FlightNext]_vars

\* C36: with several requests in flight, requestCount never exceeds
\* limits[currentProvider], and a step that counts a successful primary call
\* counts it while the backend that was that request's primary is the
\* current one.
C36_CountWithinLimit ==
    /\ [](providerRotation.requestCount
            <= limits[providerRotation.currentProvider])
    /\ [][providerRotation'.requestCount = providerRotation.requestCount + 1 =>
            \E r \in Lanes :
               /\ inFlight'[r] # inFlight[r]
               /\ inFlight[r].primary = providerRotation.currentProvider]_vars



\* ======================================== concurrent adapters at the clock
\* The adapters of requests in flight at the same time, each at the rate-limit
\* call of one attempt: `await waitForRateLimit(provider)` followed by
\* fetch(...).  Time passes in seconds; a timer fires when it is due or later.

\* the outbound call of lane r to backend p right after waitForRateLimit
\* returned: lastRequestTime[p] = Date.now(), then fetch
stampAndFetch(r, p) ==
    /\ sinceLastRequest' = [ sinceLastRequest EXCEPT ![p] = 0 ]
    /\ sinceCall' = [ sinceCall EXCEPT ![p] = 0 ]
    /\ waiters' = [ waiters EXCEPT ![r] =
                      [ stage |-> "inflight", provider |-> p, left |-> 0 ] ]

\* an adapter of backend p calls waitForRateLimit(p) in lane r: it is
\* suspended for waitTime, or goes through to its fetch at once
laneWait(r, p) ==
    /\ waiters[r].stage = "idle"
    /\ IF waitTime(sinceLastRequest[p], requiredDelay(p)) > 0
       THEN /\ waiters' = [ waiters EXCEPT ![r] =
                   [ stage    |-> "sleeping",
                     provider |-> p,
                     left     |-> waitTime(sinceLastRequest[p],
                                           requiredDelay(p)) ] ]
            /\ UNCHANGED << sinceLastRequest, sinceCall >>
       ELSE stampAndFetch(r, p)
    /\ UNCHANGED outsideWaiting

\* the timer of lane r fires: waitForRateLimit goes on after its await
laneWake(r) ==
    /\ waiters[r].stage = "sleeping"
    /\ waiters[r].left = 0
    /\ stampAndFetch(r, waiters[r].provider)
    /\ UNCHANGED outsideWaiting

\* the backend answers the call of lane r
laneReply(r) ==
    /\ waiters[r].stage = "inflight"
    /\ waiters' = [ waiters EXCEPT ![r] = NoWaiter ]
    /\ UNCHANGED << sinceLastRequest, sinceCall, outsideWaiting >>

\* a second passes for every lane
laneTick ==
    /\ \E r \in Lanes : waiters[r].stage # "idle"
    /\ sinceLastRequest' =
         [ p \in ProviderNames |->
             Min(sinceLastRequest[p] + 1, requiredDelay(p)) ]
    /\ sinceCall' =
         [ p \in ProviderNames |-> Min(sinceCall[p] + 1, requiredDelay(p)) ]
    /\ waiters' = [ r \in Lanes |->
                      [ waiters[r] EXCEPT !.left = Max(@ - 1, 0) ] ]
    /\ UNCHANGED outsideWaiting

ClockNext ==
    \/ \E r \in Lanes, p \in ProviderNames : laneWait(r, p)
    \/ \E r \in Lanes : laneWake(r)
    \/ \E r \in Lanes : laneReply(r)
    \/ laneTick

ClockSpec == Init /\ [][ClockNext]_vars

\* lane r issues its outbound call in this step
LaneCalls(r) ==
    waiters[r].stage # "inflight" /\ waiters'[r].stage = "inflight"

\* C37: with several requests in flight, an outbound call to a backend is
\* issued no sooner than delayBetweenRequests after the last call to the
\* same backend.
C37_SpacedAcrossRequests ==
    [][\A r \in Lanes :
         LaneCalls(r) =>
            sinceCall[waiters'[r].provider]
               >= requiredDelay(waiters'[r].provider)]_vars



\* ===================================================== calls and ending
\* The request with the scheduling the runtime gives it: the synchronous
\* stretches of classifyWithAI run as soon as they can, and every outbound
\* call is answered or fails (the proviso of the termination claim).
RequestStep ==
    \/ invokeAdapter
    \/ \E resp \in Responses : modelAttempt(resp)
    \/ allFailed

\* primary results counted before the requests stop coming
MaxCounted == 2

\* the requests that reach the provider loop (the others return from
\* classifyStart), as long as fewer than MaxCounted were counted
NamedNext ==
    \/ initializeKeyPools
    \/ /\ providerRotation.requestCount < MaxCounted
       /\ \E od \in { o \in OrgDatas : validInput(o) }, opts \in OptionsSet :
             classifyStart(od, opts)
    \/ RequestStep

FairSpec == Init /\ [][NamedNext]_vars /\ WF_vars(RequestStep)

\* the models configured for all backends together
ConfiguredModels ==
    Len(PROVIDERS["cerebras"].models) + Len(PROVIDERS["openrouter"].models)
        + Len(PROVIDERS["moonshot"].models)

\* C38: one request issues at most one outbound call per configured model of
\* each backend (cerebras 1, openrouter 2, moonshot 2: at most 5 calls), and
\* once it has entered the provider loop it comes to its end, given that
\* every outbound call is answered or fails.
C38_BoundedCallsAndEnd ==
    /\ [](\A p \in ProviderNames : Calls(p) <= Len(PROVIDERS[p].models))
    /\ [](Len(callLog) <= 5)
    /\ ConfiguredModels = 5
    /\ (pc \in {"loop", "adapter"}) ~> Done

\* a request that made all five calls and came to its end
C38_Witness ==
    /\ Done
    /\ Len(callLog) = ConfiguredModels
    /\ \A p \in ProviderNames : Calls(p) = Len(PROVIDERS[p].models)



\* ------------------------------------------------- a silent primary
\* the counter is below the limit of the current backend
BelowLimit ==
    providerRotation.requestCount < limits[providerRotation.currentProvider]

\* C39: while the primary's adapter produces no result and requestCount is
\* below the limit, no step changes currentProvider or requestCount (not the
\* start of a request, not a fallback's result, not a degraded end), and
\* every request that starts gets the same backend as its primary.
C39_SilentPrimaryStays ==
    /\ [][(BelowLimit /\ ~PrimaryReturn) =>
            providerRotation' = providerRotation]_vars
    /\ [][(BelowLimit /\ RequestStart /\ pc' = "loop") =>
            primaryProvider' = providerRotation.currentProvider]_vars

\* a request served by a fallback while the primary's pool is empty, with
\* the counter where earlier results of the primary left it
C39_Witness ==
    /\ Done /\ Live
    /\ primaryProvider = "cerebras"
    /\ keyPools["cerebras"] = << >>
    /\ result.provider = Str(<< "moonshot" >>)
    /\ providerRotation = [ currentProvider |-> "cerebras", requestCount |-> 3 ]



\* ================================== the single-provider classifier
\* lib/aiClassifier.js: one pool of OpenRouter keys, three models, and a
\* classifyWithAI that goes round the keys.  One call at a time.

\* keys in OPENROUTER_API_KEYS
MaxSingleKeys == 2

MODELS ==
    << "nvidia/nemotron-3-nano-30b-a3b:free",
       "meta-llama/llama-3.3-70b-instruct:free",
       "google/gemini-2.0-flash-exp:free" >>

\* what split(","), trim and filter leave of the environment value: lists
\* of non-empty keys, a key possibly more than once
SingleKeyLists ==
    UNION { [ 1..n -> 1..MaxSingleKeys ] : n \in 0..MaxSingleKeys }

\* getRotatedKey() on a pool that is not empty: the key at the pointer
\* (0, for undefined, when the pointer is outside the pool) and the pointer
\* moved forward
getRotatedKey(keys, index) ==
    [ key   |-> IF index + 1 \in DOMAIN keys THEN keys[index + 1] ELSE 0,
      index |-> (index + 1) % Len(keys) ]

\* API_KEYS.filter(k => k !== deadKey)
RECURSIVE filterOut(_, _)
filterOut(keys, deadKey) ==
    IF keys = << >>
    THEN << >>
    ELSE IF Head(keys) = deadKey
    THEN filterOut(Tail(keys), deadKey)
    ELSE << Head(keys) >> \o filterOut(Tail(keys), deadKey)

\* a removeKey that leaves the pointer where it is
removeDeadKeyNoAdjust(keys, index, deadKey) ==
    [ keys |-> filterOut(keys, deadKey), index |-> index ]

\* removeKey(deadKey) of aiClassifier.js
removeDeadKey(keys, index, deadKey) ==
    [ keys  |-> filterOut(keys, deadKey),
      index |-> IF index >= Len(filterOut(keys, deadKey)) THEN 0 ELSE index ]

\* how an awaited callOpenRouter ends: a parsed reply is returned
\* ("value"), Error("KEY_LIMIT") is thrown on status 429 or 402, or
\* something else is thrown (API_ERROR_<status>, a rejected fetch, a body
\* that is not JSON)
CallOutcomes == { "value", "KEY_LIMIT", "error" }

\* the module is evaluated: API_KEYS from the environment, pointer 0
loadModule(keys) ==
    /\ singlePc = "unloaded"
    /\ API_KEYS' = keys
    /\ currentKeyIndex' = 0
    /\ singlePc' = "idle"
    /\ UNCHANGED << keyAttempts, keyBudget, activeKey, modelAt, ended, picks,
                    entryKeys, lastOutcome, outsideSingle >>

\* the head of the while loop with the pool keys, the pointer index and n
\* rounds done: return null when the budget is spent or the pool is empty,
\* else pick a key and call the first model
whileHead(keys, index, n) ==
    /\ keyAttempts' = n
    /\ API_KEYS' = keys
    /\ IF n >= keyBudget \/ Len(keys) = 0
       THEN /\ singlePc' = "done"
            /\ ended' = "null"
            /\ currentKeyIndex' = index
            /\ UNCHANGED << activeKey, modelAt, picks >>
       ELSE /\ activeKey' = getRotatedKey(keys, index).key
            /\ currentKeyIndex' = getRotatedKey(keys, index).index
            /\ picks' = picks + 1
            /\ modelAt' = 1
            /\ singlePc' = "call"
            /\ ended' = "pending"

\* classifyWithAI(orgData) up to its first await
singleStart ==
    /\ singlePc \in {"idle", "done"}
    /\ keyBudget' = Len(API_KEYS) * Len(MODELS) + 2
    /\ entryKeys' = Len(API_KEYS)
    /\ keyAttempts' = 0
    /\ API_KEYS' = API_KEYS
    /\ lastOutcome' = "none"
    /\ IF Len(API_KEYS) = 0
       THEN /\ singlePc' = "done"
            /\ ended' = "null"
            /\ picks' = 0
            /\ UNCHANGED << currentKeyIndex, activeKey, modelAt >>
       ELSE /\ activeKey' = getRotatedKey(API_KEYS, currentKeyIndex).key
            /\ currentKeyIndex' = getRotatedKey(API_KEYS, currentKeyIndex).index
            /\ picks' = 1
            /\ modelAt' = 1
            /\ singlePc' = "call"
            /\ ended' = "pending"
    /\ UNCHANGED outsideSingle

\* the catch block on KEY_LIMIT: removeKey(activeKey), break, attempts++,
\* and the head of the loop again.  removeKey starts with
\* deadKey.slice(-4), which throws for an undefined key, out of the catch
\* block and out of classifyWithAI
onKeyLimit(rem) ==
    IF activeKey = 0
    THEN /\ singlePc' = "done"
         /\ ended' = "throw"
         /\ UNCHANGED << API_KEYS, currentKeyIndex, keyAttempts, activeKey,
                         modelAt, picks >>
    ELSE whileHead(rem.keys, rem.index, keyAttempts + 1)

\* the catch block on any other error: the next model with the same key,
\* or, after the last model, attempts++ and the head of the loop again
onOtherError ==
    IF modelAt < Len(MODELS)
    THEN /\ modelAt' = modelAt + 1
         /\ UNCHANGED << API_KEYS, currentKeyIndex, singlePc, keyAttempts,
                         activeKey, ended, picks >>
    ELSE whileHead(API_KEYS, currentKeyIndex, keyAttempts + 1)

\* the awaited callOpenRouter(orgData, MODELS[modelAt], activeKey) ends
singleReply(outcome) ==
    /\ singlePc = "call"
    /\ lastOutcome' = outcome
    /\ CASE outcome = "value" ->
              /\ singlePc' = "done"
              /\ ended' = "value"
              /\ UNCHANGED << API_KEYS, currentKeyIndex, keyAttempts,
                              activeKey, modelAt, picks >>
         [] outcome = "KEY_LIMIT" ->
              onKeyLimit(removeDeadKey(API_KEYS, currentKeyIndex, activeKey))
         [] OTHER -> onOtherError
    /\ UNCHANGED << keyBudget, entryKeys, outsideSingle >>

SingleNext ==
    \/ \E keys \in SingleKeyLists : loadModule(keys)
    \/ singleStart
    \/ \E outcome \in CallOutcomes : singleReply(outcome)

SingleSpec == Init /\ [][SingleNext]_vars

\* every awaited callOpenRouter ends, one way or another
FairSingleSpec ==
    SingleSpec /\ WF_vars(\E outcome \in CallOutcomes : singleReply(outcome))

\* the step in which the awaited callOpenRouter ends
ReplyStep == singlePc = "call" /\ single' # single

\* the keys in a pool
KeysIn(keys) == { keys[i] : i \in DOMAIN keys }

\* C40: classifyWithAI of lib/aiClassifier.js comes to its end, and not by
\* a throw; it picks a key at most (keys at entry x 3 models + 2) times; a
\* KEY_LIMIT reply (status 429 or 402) takes every copy of the key in use
\* out of the pool and nothing else; and it is never found waiting for a
\* reply with an empty pool or a spent budget: it has returned null at once.
C40_SingleEndsWithinBudget ==
    /\ (singlePc = "call") ~> (singlePc = "done")
    /\ [](ended # "throw")
    /\ [](picks <= entryKeys * 3 + 2)
    /\ Len(MODELS) = 3
    /\ [][ReplyStep =>
            IF lastOutcome' = "KEY_LIMIT"
            THEN /\ KeysIn(API_KEYS') = KeysIn(API_KEYS) \ {activeKey}
                 /\ Len(API_KEYS') < Len(API_KEYS)
            ELSE API_KEYS' = API_KEYS]_vars
    /\ [](singlePc = "call" =>
            /\ activeKey \in KeysIn(API_KEYS)
            /\ keyAttempts < keyBudget)
    /\ []((singlePc = "done" /\ ended = "null") =>
            (API_KEYS = << >> \/ keyAttempts >= keyBudget))

\* a call that used its whole budget on two keys that only ever failed
C40_Witness ==
    /\ singlePc = "done"
    /\ ended = "null"
    /\ entryKeys = 2
    /\ picks = 8
    /\ API_KEYS # << >>

\* a call that ended because its last key was taken out of the pool
C40_PoolEmptied ==
    /\ singlePc = "done"
    /\ ended = "null"
    /\ entryKeys = 2
    /\ lastOutcome = "KEY_LIMIT"
    /\ API_KEYS = << >>
    /\ keyAttempts < keyBudget

====
